---------------------------- MODULE Spec2Model ----------------------------
(***************************************************************************)
(* A model of the aircraft-manual ingestion pipeline:                      *)
(*   process_chunks.py  - category classifier and token-window chunking,   *)
(*   OLD-doesnt-save-interim-process_manual.py - embedding stage with      *)
(*                        retries (generate_embeddings),                   *)
(*   embed_chunks.py    - embedding stage without retries                  *)
(*                        (embed_with_openai).                             *)
(*                                                                         *)
(* Text is modelled as a sequence of lexemes: a word, a digit group, a     *)
(* punctuation mark or one whitespace character.  Two word lexemes are     *)
(* never adjacent in the texts the model draws, so a regular expression's  *)
(* \b holds exactly at the borders between a word lexeme and a non-word    *)
(* lexeme (or an end of the text).                                         *)
(***************************************************************************)
EXTENDS Integers, Sequences, FiniteSets, TLC

VARIABLES
    \* detect_system_category: one call
    text,           \* argument text
    title,          \* argument title (None and "" are both the empty text)
    scores,         \* the scores dict, in insertion order: <<category, score>>
    category,       \* the returned label
    dpc,            \* "idle" | "call" | "returned"
    \* chunk_text: one call
    pages_text,     \* argument pages_text: sequence of [page_number, text]
    chunk_size,     \* argument chunk_size
    chunk_overlap,  \* argument chunk_overlap
    chunks,         \* the returned list of chunk records
    cpc,            \* "idle" | "call" | "returned"
    \* embedding stage: generate_embeddings / embed_with_openai
    impl,           \* "none" | "generate_embeddings" | "embed_with_openai"
    echunks,        \* the chunks list, mutated in place
    ei,             \* the chunk in work, counted from 1 (the code's i + 1)
    attempt,        \* loop variable attempt (0-based)
    successful,     \* counter successful
    failed,         \* counter failed
    embedded,       \* the returned list (valid_chunks / embedded)
    epc,            \* "idle" | "loop" | "returned"
    elog,           \* history: provider calls and sleeps, in order
    budget,         \* the calls the provider is still going to fail
    flaky,          \* the chunks (positions) whose calls the provider may fail
    \* upload stage: upload_to_supabase of either file
    uimpl,          \* "none" | "old_upload" | "new_upload"
    uchunks,        \* argument chunks
    ui,             \* loop variable i, the start of the batch (0-based)
    uattempt,       \* loop variable attempt of the old retry loop (0-based)
    usuccessful,    \* counter successful of the upload
    ufailed,        \* counter failed of the upload
    store,          \* the rows of the table this run has inserted
    ulog,           \* history: selects, inserts and sleeps, in order
    upc,            \* "idle" | "test" | "loop" | "returned"
    \* drivers: the main functions
    main,           \* "none" | "old_main" | "embed_main" | "process_main"
    mpc,            \* the position of main
    docs,           \* the PDF files of the run, as the PDF library reads them
    di,             \* process_chunks.main: the document in work, from 1
    all_chunks,     \* process_chunks.main: all_chunks
    files,          \* the artifacts on disk
    mlog            \* history: what main has called and written, in order

classifyVars == <<text, title, scores, category, dpc>>
chunkVars    == <<pages_text, chunk_size, chunk_overlap, chunks, cpc>>
embedVars    == <<impl, echunks, ei, attempt, successful, failed, embedded,
                  epc, elog, budget, flaky>>
uploadVars   == <<uimpl, uchunks, ui, uattempt, usuccessful, ufailed, store,
                  ulog, upc>>
mainVars     == <<main, mpc, docs, di, all_chunks, files, mlog>>
vars == <<classifyVars, chunkVars, embedVars, uploadVars, mainVars>>

-----------------------------------------------------------------------------
(* Lexemes *)

SP  == " "
NL  == "\n"
DOT == "."
NUL == "NUL"        \* the character \x00

Whitespace == {SP, NL}
\* Lexemes that hold no \w character.
NonWord    == {SP, NL, DOT, NUL, "-", "&"}
\* Lexemes matched by the character class [\d\.\-].
NumPunct   == {"5", "3", DOT, "-"}

\* The lexemes that begin with a capital letter, with their lower-case form.
Capitalised ==
    [Table |-> "table", Contents |-> "contents", Landing |-> "landing",
     Gear |-> "gear", Hydraulic |-> "hydraulic", Engine |-> "engine",
     Unknown |-> "unknown", Section |-> "section", Chapter |-> "chapter",
     Part |-> "part", Item |-> "item", Task |-> "task", The |-> "the",
     Fuel |-> "fuel", System |-> "system", R |-> "r", I |-> "i"]

IsWord(x)       == x \notin NonWord
StartsUpper(x)  == x \in DOMAIN Capitalised
Lower(x)        == IF x \in DOMAIN Capitalised THEN Capitalised[x] ELSE x
CharLen(x)      == IF x = NUL THEN 1 ELSE Len(x)

RECURSIVE Chars(_)
Chars(s) == IF s = <<>> THEN 0 ELSE CharLen(Head(s)) + Chars(Tail(s))

-----------------------------------------------------------------------------
(* IEEE-754 double arithmetic on the scores.                               *)
(* A double v >= 1 (or 0) is kept as <<t, d>> with                         *)
(*     v * 10 * 2^52 = t * 2^52 + d,                                       *)
(* t the value in exact tenths and d the rounding deviation.  Each         *)
(* operation computes the exact result and rounds it to the nearest        *)
(* double, ties to even, as the hardware does.                             *)

Pow2(e) == CASE e = 0 -> 1 [] e = 1 -> 2 [] e = 2 -> 4 [] e = 3 -> 8
             [] e = 4 -> 16 [] e = 5 -> 32 [] e = 6 -> 64 [] e = 7 -> 128
             [] e = 8 -> 256 [] OTHER -> 512

\* 2^(52-e) modulo 20, for 0 <= e <= 9.
Pow2Mod20(e) == CASE e % 4 = 0 -> 16 [] e % 4 = 1 -> 8
                  [] e % 4 = 2 -> 4  [] OTHER -> 12

RECURSIVE Binade(_, _, _)
Binade(t, d, e) ==
    IF e < 9 /\ (t > 10 * Pow2(e + 1) \/ (t = 10 * Pow2(e + 1) /\ d >= 0))
    THEN Binade(t, d, e + 1) ELSE e

FRound(t, d) ==
    IF t = 0 THEN <<0, 0>>
    ELSE LET e    == Binade(t, d, 0)
             ulp  == 10 * Pow2(e)
             rem2 == (Pow2(e) * ((t * Pow2Mod20(e)) % 20) + d) % (2 * ulp)
             rem  == rem2 % ulp
         IN  IF 2 * rem < ulp THEN <<t, d - rem>>
             ELSE IF 2 * rem > ulp THEN <<t, d - rem + ulp>>
             ELSE IF rem2 < ulp THEN <<t, d - rem>>
             ELSE <<t, d - rem + ulp>>

FLit(tenths)  == FRound(tenths, 0)                  \* a literal such as 1.2
FMulInt(a, n) == FRound(a[1] * n, a[2] * n)         \* a * n, n integral
FAdd(a, b)    == FRound(a[1] + b[1], a[2] + b[2])
FLess(a, b)   == a[1] < b[1] \/ (a[1] = b[1] /\ a[2] < b[2])

-----------------------------------------------------------------------------
(* The category table _CAT_PATTERNS.                                       *)
(* A pattern is [alts, w]: the phrases its regular expression matches      *)
(* between two \b, lower-cased (re.I), in the order the expression tries   *)
(* them at one position, and its weight in tenths.  hydraul\w+ stands for  *)
(* an unbounded set of words; two of them are listed.                      *)

W(a)          == <<a>>
W2(a, b)      == <<a, SP, b>>
W3(a, b, c)   == <<a, SP, b, SP, c>>

_CAT_PATTERNS == <<
  [cat |-> "Non-Content", pats |-> <<
     [alts |-> <<W3("table", "of", "contents"), W("contents"), W("toc"),
                 W3("list", "of", "tables"), W3("list", "of", "figures"),
                 W("illustrations"), W("illustration"), W("drawings"),
                 W("drawing"), W("schematics"), W("schematic")>>, w |-> 30]>>],
  [cat |-> "Hydraulic", pats |-> <<
     [alts |-> <<W("hydraulic"), W("hydraulics")>>, w |-> 30],
     [alts |-> <<W("actuator"), W("reservoir"), W("accumulator"), W("servo"),
                 W("pressure"), W2("relief", "valve"),
                 <<"hyd", DOT, SP, "pump">>, W2("hyd", "pump")>>, w |-> 15]>>],
  [cat |-> "Electrical", pats |-> <<
     [alts |-> <<W2("electrical", "system"), W("electrical"),
                 W2("electrica", "system"), W("electrica")>>, w |-> 30],
     [alts |-> <<W("circuits"), W("circuit"), W("voltage"), W("current"),
                 W("battery"), W("generator"), W("alternator"), W("busbar"),
                 W("bus"), W("breaker"), W("inverter")>>, w |-> 15]>>],
  [cat |-> "Avionics", pats |-> <<
     [alts |-> <<W("avionics"), W("avionic"), W("navigation"),
                 W("communication"), W("radar"), W("fms"), W("gps"),
                 W("display"), W("computer")>>, w |-> 15],
     [alts |-> <<W2("flight", "director")>>, w |-> 30]>>],
  [cat |-> "Powerplant", pats |-> <<
     [alts |-> <<W("powerplant"), W("engines"), W("engine"), W("turbine"),
                 W("compressor"), W("combustion"), W("exhaust"), W("ignition"),
                 W("propeller")>>, w |-> 20],
     [alts |-> <<W("n1"), W("n2"), W("egt"), W("itt"), W("torque")>>,
      w |-> 12]>>],
  [cat |-> "Landing Gear", pats |-> <<
     [alts |-> <<W2("landing", "gear")>>, w |-> 30],
     [alts |-> <<W("strut"), W("shock"), W("brakes"), W("brake"), W("wheels"),
                 W("wheel"), W("tires"), W("tire"), W2("nose", "gear"),
                 W("extend"), W("retract")>>, w |-> 15]>>],
  [cat |-> "Maintenance", pats |-> <<
     [alts |-> <<W("troubleshooting"), W("inspection"), W("intervals"),
                 W("interval"), W("schedule"), W("service"), W("lubricate"),
                 W("lubrication"), W("maintenance")>>, w |-> 15],
     [alts |-> <<W3("removal", "and", "installation"), <<"r", "&", "i">>,
                 W("installation"), W("install"), W("remove")>>, w |-> 15]>>],
  [cat |-> "Fuel System", pats |-> <<
     [alts |-> <<W2("fuel", "system")>>, w |-> 30],
     [alts |-> <<W2("fuel", "tank"), W2("fuel", "selector"),
                 W2("fuel", "quantity"), W2("fuel", "indicator"),
                 W2("fuel", "flow"), W2("boost", "pump"),
                 W2("unfeather", "pump")>>, w |-> 18]>>],
  [cat |-> "Environmental", pats |-> <<
     [alts |-> <<W2("air", "conditioning"), W("pressurization"),
                 W2("bleed", "air"), W("ventilation"),
                 W2("temperature", "control"), W("oxygen")>>, w |-> 20]>>],
  [cat |-> "Flight Controls", pats |-> <<
     [alts |-> <<W2("flight", "control"), W("aileron"), W("elevator"),
                 W("rudder"), W("flap"), W("spoiler"), W("trim")>>, w |-> 18],
     [alts |-> <<W("autopilot"), W2("yaw", "damper")>>, w |-> 22]>>],
  [cat |-> "Emergency Procedures", pats |-> <<
     [alts |-> <<W2("emergency", "procedures"), W2("emergency", "procedure"),
                 W("abnormal"), W("warnings"), W("warning"), W("cautions"),
                 W("caution")>>, w |-> 15]>>],
  [cat |-> "Limitations", pats |-> <<
     [alts |-> <<W("limitations"), W("limitation"), W2("operating", "limits"),
                 W2("operating", "limit"), W3("weight", "and", "balance"),
                 W3("center", "of", "gravity"), <<"c", DOT, "g">>, W("cg")>>,
      w |-> 18]>>],
  [cat |-> "Operating Procedures", pats |-> <<
     [alts |-> <<W2("normal", "procedures"), W2("normal", "procedure"),
                 W2("operational", "procedures"),
                 W2("operational", "procedure"), W("checklist"),
                 W("preflight"), W("postflight"), W("starting"), W("start"),
                 W("shutdown")>>, w |-> 15]>>] >>

\* Mutant of _MIN_SCORE: a minimum above the score of one body match of a
\* 3.0-weight pattern.
MinScoreAboveOneMatch == 30 + 1

_TITLE_WEIGHT == 3      \* 3.0
_TEXT_WEIGHT  == 1      \* 1.0
_MIN_SCORE    == 20     \* 2.0, in tenths

-----------------------------------------------------------------------------
(* pat.findall(s): the number of non-overlapping matches, leftmost first.  *)

\* Whether phrase alt matches s at position i, \b on both sides.
AltMatchesAt(alt, s, i) ==
    /\ Lower(s[i]) = alt[1]
    /\ i + Len(alt) - 1 <= Len(s)
    /\ \A k \in 2..Len(alt) : Lower(s[i + k - 1]) = alt[k]
    /\ (i = 1 \/ ~IsWord(s[i - 1]))
    /\ (i + Len(alt) > Len(s) \/ ~IsWord(s[i + Len(alt)]))

\* The length of the match at position i (0: none): the first alternative
\* that matches there.  heads holds the first lexeme of every alternative.
MatchLenAt(alts, heads, s, i) ==
    IF Lower(s[i]) \notin heads THEN 0
    ELSE LET hits == {k \in 1..Len(alts) : AltMatchesAt(alts[k], s, i)}
         IN  IF hits = {} THEN 0
             ELSE Len(alts[CHOOSE k \in hits : \A j \in hits : k <= j])

\* The scan of findall from position i up to position last, cnt matches
\* found so far: <<matches, the position the scan goes on from>>.
RECURSIVE FindAllScan(_, _, _, _, _, _)
FindAllScan(alts, heads, s, i, last, cnt) ==
    IF i > last THEN <<cnt, i>>
    ELSE LET n == MatchLenAt(alts, heads, s, i)
         IN  IF n > 0 THEN FindAllScan(alts, heads, s, i + n, last, cnt + 1)
             ELSE FindAllScan(alts, heads, s, i + 1, last, cnt)

\* The scan is evaluated in stretches of ScanStretch positions, which only
\* bounds the depth of the evaluation; the result is that of one scan.
ScanStretch == 40

RECURSIVE FindAllFrom(_, _, _, _, _)
FindAllFrom(alts, heads, s, i, cnt) ==
    IF i > Len(s) THEN cnt
    ELSE LET last == IF i + ScanStretch - 1 < Len(s)
                     THEN i + ScanStretch - 1 ELSE Len(s)
             r    == FindAllScan(alts, heads, s, i, last, cnt)
         IN  FindAllFrom(alts, heads, s, r[2], r[1])

FindAllCount(pat, s) ==
    IF s = <<>> THEN 0
    ELSE FindAllFrom(pat.alts, {pat.alts[k][1] : k \in 1..Len(pat.alts)},
                     s, 1, 0)

-----------------------------------------------------------------------------
(* detect_system_category(text, title, topk=1) *)

\* Mutant of ScorePattern: title matches weighted like body matches.
ScorePatternFlatTitle(acc, pat, body, hdr) ==
    LET w     == FLit(pat.w)
        withT == IF hdr # <<>>
                 THEN FAdd(acc, FMulInt(FMulInt(w, _TEXT_WEIGHT),
                                        FindAllCount(pat, hdr)))
                 ELSE acc
    IN  FAdd(withT, FMulInt(FMulInt(w, _TEXT_WEIGHT), FindAllCount(pat, body)))

\* The inner loop body for one (pat, w) of a category, on the running score.
ScorePattern(acc, pat, body, hdr) ==
    LET w     == FLit(pat.w)
        withT == IF hdr # <<>>
                 THEN FAdd(acc, FMulInt(FMulInt(w, _TITLE_WEIGHT),
                                        FindAllCount(pat, hdr)))
                 ELSE acc
    IN  FAdd(withT, FMulInt(FMulInt(w, _TEXT_WEIGHT), FindAllCount(pat, body)))

RECURSIVE ScorePatterns(_, _, _, _, _)
ScorePatterns(acc, pats, k, body, hdr) ==
    IF k > Len(pats) THEN acc
    ELSE ScorePatterns(ScorePattern(acc, pats[k], body, hdr), pats, k + 1,
                       body, hdr)

\* scores.items() after the loops: one entry per category, in table order.
Scores(body, hdr) ==
    [c \in 1..Len(_CAT_PATTERNS) |->
        <<_CAT_PATTERNS[c].cat,
          ScorePatterns(<<0, 0>>, _CAT_PATTERNS[c].pats, 1, body, hdr)>>]

\* sorted(items, key=lambda kv: kv[1], reverse=True): a stable sort, so an
\* item goes behind every item whose key is not smaller.
\* Mutant of InsertRanked: an unstable sort, an item goes in front of the
\* items with an equal key.
RECURSIVE InsertRankedUnstable(_, _)
InsertRankedUnstable(ranked, kv) ==
    IF ranked = <<>> THEN <<kv>>
    ELSE IF ~FLess(kv[2], Head(ranked)[2]) THEN <<kv>> \o ranked
    ELSE <<Head(ranked)>> \o InsertRankedUnstable(Tail(ranked), kv)

RECURSIVE InsertRanked(_, _)
InsertRanked(ranked, kv) ==
    IF ranked = <<>> THEN <<kv>>
    ELSE IF FLess(Head(ranked)[2], kv[2]) THEN <<kv>> \o ranked
    ELSE <<Head(ranked)>> \o InsertRanked(Tail(ranked), kv)

RECURSIVE SortedByScoreDesc(_)
SortedByScoreDesc(items) ==
    IF items = <<>> THEN <<>>
    ELSE InsertRanked(SortedByScoreDesc(SubSeq(items, 1, Len(items) - 1)),
                      items[Len(items)])

\* Mutant of TopCategory: the minimum-score test left out.
TopCategoryNoMinimum(items) ==
    LET ranked == SortedByScoreDesc(items)
    IN  IF ranked = <<>> THEN "General" ELSE ranked[1][1]

\* Lines 88-93: rank the items; General below the minimum score.
TopCategory(items) ==
    LET ranked == SortedByScoreDesc(items)
    IN  IF ranked = <<>> \/ FLess(ranked[1][2], FLit(_MIN_SCORE))
        THEN "General"
        ELSE ranked[1][1]

detect_system_category(body, hdr) == TopCategory(Scores(body, hdr))

-----------------------------------------------------------------------------
(* chunk_text(pages_text, pdf_basename, chunk_size, chunk_overlap) *)

AIRCRAFT_MODEL == "DA42"

Indices(s) == [i \in 1..Len(s) |-> i]
IsSpace(s, i) == i >= 1 /\ i <= Len(s) /\ s[i] \in Whitespace

\* str.strip(): without the whitespace at both ends.
Strip(s) ==
    LET inner == {i \in 1..Len(s) : s[i] \notin Whitespace}
    IN  IF inner = {} THEN <<>>
        ELSE SubSeq(s, CHOOSE i \in inner : \A j \in inner : i <= j,
                       CHOOSE i \in inner : \A j \in inner : i >= j)

\* re.sub(r'\s{2,}', ' ', text).strip(): every maximal run of two or more
\* whitespace characters becomes one space; a lone one stays as it is.
Normalize(s) ==
    LET kept == SelectSeq(Indices(s),
                          LAMBDA i : ~(IsSpace(s, i) /\ IsSpace(s, i - 1)))
    IN  Strip([k \in 1..Len(kept) |->
                 IF IsSpace(s, kept[k]) /\ IsSpace(s, kept[k] + 1)
                 THEN SP ELSE s[kept[k]]])

\* tokenizer.encode on normalized text: a token is a lexeme, together with
\* the single space in front of it when there is one (byte-pair tokens carry
\* their leading space).
Encode(s) ==
    LET firsts == SelectSeq(Indices(s),
                            LAMBDA i : ~(s[i] = SP /\ i < Len(s)))
    IN  [k \in 1..Len(firsts) |->
           IF firsts[k] > 1 /\ s[firsts[k] - 1] = SP
           THEN <<SP, s[firsts[k]]>> ELSE <<s[firsts[k]]>>]

\* tokenizer.decode: the tokens' texts, concatenated.
RECURSIVE DecodeRange(_, _, _)
DecodeRange(tokens, lo, hi) ==
    IF lo > hi THEN <<>>
    ELSE IF lo = hi THEN tokens[lo]
    ELSE LET mid == (lo + hi) \div 2
         IN  DecodeRange(tokens, lo, mid) \o DecodeRange(tokens, mid + 1, hi)

Decode(tokens) == DecodeRange(tokens, 1, Len(tokens))

\* llm_cleanup: text.replace("\x00", "").
llm_cleanup(s) == SelectSeq(s, LAMBDA x : x # NUL)

\* range(start, stop, step) for step >= 1, as the loop steps through it.
RECURSIVE PyRange(_, _, _)
PyRange(start, stop, step) ==
    IF start >= stop THEN <<>>
    ELSE <<start>> \o PyRange(start + step, stop, step)

\* tokens[i:i + n], i counted from 0.
Slice(tokens, i, n) ==
    SubSeq(tokens, i + 1, IF i + n < Len(tokens) THEN i + n ELSE Len(tokens))

(* The section-title search                                                *)
(*   (?:^|\n)(?:Chapter|Section|Part|Item|Task)?\s*[\d\.\-]*\s*            *)
(*   ([A-Z][^\n\.]{3,60})                                                  *)

TitleLabels == {"Chapter", "Section", "Part", "Item", "Task"}

RECURSIVE SkipWhile(_, _, _)
SkipWhile(s, i, class) ==
    IF i <= Len(s) /\ s[i] \in class THEN SkipWhile(s, i + 1, class) ELSE i

\* \s*[\d\.\-]*\s* from position i: where the group has to begin.
SkipPrefix(s, i) ==
    SkipWhile(s, SkipWhile(s, SkipWhile(s, i, Whitespace), NumPunct),
              Whitespace)

\* The end of the group that begins at c with n characters taken so far: it
\* runs on over whole lexemes other than a newline or a full stop while it
\* has no more than 61 characters.
RECURSIVE GroupEnd(_, _, _)
GroupEnd(s, e, n) ==
    IF e + 1 <= Len(s) /\ s[e + 1] \notin {NL, DOT}
       /\ n + CharLen(s[e + 1]) <= 61
    THEN GroupEnd(s, e + 1, n + CharLen(s[e + 1]))
    ELSE e

\* The group ([A-Z][^\n\.]{3,60}) at position c: <<c, end>>, or <<0, 0>>.
GroupAt(s, c) ==
    IF c <= Len(s) /\ StartsUpper(s[c])
    THEN LET e == GroupEnd(s, c, CharLen(s[c]))
         IN  IF Chars(SubSeq(s, c, e)) >= 4 THEN <<c, e>> ELSE <<0, 0>>
    ELSE <<0, 0>>

\* The match whose label and prefix begin at position q: with the label
\* first, then without it.
TitleMatchAt(s, q) ==
    LET withLabel == IF q <= Len(s) /\ s[q] \in TitleLabels
                     THEN GroupAt(s, SkipPrefix(s, q + 1)) ELSE <<0, 0>>
    IN  IF withLabel # <<0, 0>> THEN withLabel
        ELSE GroupAt(s, SkipPrefix(s, q))

\* re.search: the first position, the start of the text or behind a newline,
\* where the expression matches; group(1).strip(), or "Unknown Section".
SectionTitle(s) ==
    LET begins == {1} \cup {i + 1 : i \in {j \in 1..Len(s) : s[j] = NL}}
        hits   == {q \in begins : TitleMatchAt(s, q) # <<0, 0>>}
    IN  IF hits = {} THEN <<"Unknown", SP, "Section">>
        ELSE LET m == TitleMatchAt(s, CHOOSE q \in hits :
                                          \A r \in hits : q <= r)
             IN  Strip(SubSeq(s, m[1], m[2]))

\* The body of the inner loop for window start i: the chunk appended.
MakeChunk(page_number, tokens, i, pdf_basename, size) ==
    LET chunk_tokens  == Slice(tokens, i, size)
        content       == llm_cleanup(Decode(chunk_tokens))
        section_title == SectionTitle(content)
    IN  [content         |-> content,
         page_number     |-> page_number,
         section_title   |-> section_title,
         aircraft_model  |-> AIRCRAFT_MODEL,
         document_id     |-> pdf_basename,
         system_category |-> detect_system_category(content, section_title),
         token_count     |-> Len(chunk_tokens)]

\* Mutant of WindowStarts: the stride is the chunk size, the overlap dropped.
WindowStartsNoOverlap(n, size, overlap) == PyRange(0, n, size)

\* range(0, len(tokens), chunk_size - chunk_overlap)
WindowStarts(n, size, overlap) == PyRange(0, n, size - overlap)

\* The chunks of one page, in the order the inner loop appends them.
PageChunks(page, pdf_basename, size, overlap) ==
    LET tokens == Encode(Normalize(page.text))
        starts == WindowStarts(Len(tokens), size, overlap)
    IN  [k \in 1..Len(starts) |->
           MakeChunk(page.page_number, tokens, starts[k], pdf_basename, size)]

\* Mutant of chunk_text: the pages taken last to first.
RECURSIVE chunk_text_reversed(_, _, _, _)
chunk_text_reversed(pages, pdf_basename, size, overlap) ==
    IF pages = <<>> THEN <<>>
    ELSE chunk_text_reversed(Tail(pages), pdf_basename, size, overlap)
         \o PageChunks(Head(pages), pdf_basename, size, overlap)

RECURSIVE chunk_text(_, _, _, _)
chunk_text(pages, pdf_basename, size, overlap) ==
    IF pages = <<>> THEN <<>>
    ELSE PageChunks(Head(pages), pdf_basename, size, overlap)
         \o chunk_text(Tail(pages), pdf_basename, size, overlap)

-----------------------------------------------------------------------------
(* One call of detect_system_category on drawn arguments. *)

MaxBodyUnits  == 2
MaxTitleUnits == 1

SeqsUpTo(S, n) == UNION {[1..k -> S] : k \in 0..n}

RECURSIVE JoinUnits(_)
JoinUnits(us) ==
    IF us = <<>> THEN <<>>
    ELSE IF Len(us) = 1 THEN us[1]
    ELSE us[1] \o <<SP>> \o JoinUnits(Tail(us))

ClassifyUnits ==
    {<<"Table", SP, "of", SP, "Contents">>, W("hydraulic"), W("pressure"),
     W("electrical"), W("engine"), W("torque"), W("limitations"), W("valve")}

BodyInputs  == {JoinUnits(us) : us \in SeqsUpTo(ClassifyUnits, MaxBodyUnits)}
TitleInputs == {JoinUnits(us) : us \in SeqsUpTo(ClassifyUnits, MaxTitleUnits)}

ClassifyIdle ==
    /\ text = <<>> /\ title = <<>> /\ scores = <<>> /\ category = ""
    /\ dpc = "idle"
ChunkIdle ==
    /\ pages_text = <<>> /\ chunk_size = 0 /\ chunk_overlap = 0
    /\ chunks = <<>> /\ cpc = "idle"
EmbedIdle ==
    /\ impl = "none" /\ echunks = <<>> /\ ei = 0 /\ attempt = 0
    /\ successful = 0 /\ failed = 0 /\ embedded = <<>> /\ epc = "idle"
    /\ elog = <<>> /\ budget = 0 /\ flaky = {}
UploadIdle ==
    /\ uimpl = "none" /\ uchunks = <<>> /\ ui = 0 /\ uattempt = 0
    /\ usuccessful = 0 /\ ufailed = 0 /\ store = <<>> /\ ulog = <<>>
    /\ upc = "idle"
MainIdle ==
    /\ main = "none" /\ mpc = "idle" /\ docs = <<>> /\ di = 0
    /\ all_chunks = <<>> /\ files = <<>> /\ mlog = <<>>

ClassifyInit ==
    /\ text \in BodyInputs
    /\ title \in TitleInputs
    /\ scores = <<>>
    /\ category = ""
    /\ dpc = "call"
    /\ ChunkIdle /\ EmbedIdle /\ UploadIdle /\ MainIdle

DetectSystemCategory ==
    /\ dpc = "call"
    /\ scores' = Scores(text, title)
    /\ category' = TopCategory(scores')
    /\ dpc' = "returned"
    /\ UNCHANGED <<text, title, chunkVars, embedVars, uploadVars, mainVars>>

ClassifyNext == DetectSystemCategory
ClassifySpec == ClassifyInit /\ [][ClassifyNext]_vars

-----------------------------------------------------------------------------
(* One call of chunk_text on drawn arguments. *)

MaxWords     == 4       \* words of a drawn plain page
MaxPages     == 2
MaxChunkSize == 4

\* os.path.basename of config.PDF_PATH
PDF_BASENAME == "DA42-NG-AFM.pdf"

WordCycle == <<"valve", "pressure", "engine", "the", "hydraulic">>

\* n words of the cycle from offset off on, single spaces between them:
\* a text of exactly n tokens.
PlainText(n, off) ==
    [i \in 1..(IF n = 0 THEN 0 ELSE 2 * n - 1) |->
        IF i % 2 = 0 THEN SP
        ELSE WordCycle[((off + (i \div 2)) % Len(WordCycle)) + 1]]

\* Page texts as an extractor returns them: runs of whitespace, headings on
\* lines of their own, a null character.
RawTexts ==
    {<<"Chapter", SP, "5", SP, "Landing", SP, "Gear", NL, "brake", SP, SP,
       "strut", NL>>,
     <<SP, "Table", SP, "of", SP, "Contents", NL, NL, "hydraulic", NUL, SP,
       "pressure">>,
     <<"The", NL, "engine", SP, NL, SP, "torque", DOT, NL, "Fuel", SP,
       "System">>,
     <<SP, NL>>}

FirstPageTexts == {PlainText(n, off) : n \in 0..MaxWords, off \in {0, 3}}
                     \cup RawTexts
NextPageTexts  == {PlainText(3, 1),
                   <<"Item", SP, "3", DOT, "5", SP, "Engine", SP, "torque">>}

\* Page numbers rise with the position; pages the extractor dropped leave
\* gaps.
PageNumber(numbering, k) == IF numbering = "dense" THEN k ELSE 2 * k + 1

DrawnPages ==
    {[k \in 1..n |-> [page_number |-> PageNumber(numbering, k),
                      text |-> IF k = 1 THEN first ELSE rest[k - 1]]] :
        n \in 1..MaxPages, numbering \in {"dense", "gaps"},
        first \in FirstPageTexts, rest \in [1..(MaxPages - 1) -> NextPageTexts]}

\* Three pages, numbered 1 to 3, of exactly 650 tokens each.
ScenarioPages ==
    [k \in 1..3 |-> [page_number |-> k, text |-> PlainText(650, k)]]

ChunkInit ==
    /\ \/ /\ pages_text \in DrawnPages
          /\ chunk_size \in 1..MaxChunkSize
          /\ chunk_overlap \in 0..(chunk_size - 1)
       \/ /\ pages_text = ScenarioPages
          /\ chunk_size = 600
          /\ chunk_overlap = 50
    /\ chunks = <<>>
    /\ cpc = "call"
    /\ ClassifyIdle /\ EmbedIdle /\ UploadIdle /\ MainIdle

ChunkText ==
    /\ cpc = "call"
    /\ chunks' = chunk_text(pages_text, PDF_BASENAME, chunk_size, chunk_overlap)
    /\ cpc' = "returned"
    /\ UNCHANGED <<pages_text, chunk_size, chunk_overlap, classifyVars,
                   embedVars, uploadVars, mainVars>>

ChunkNext == ChunkText
ChunkSpec == ChunkInit /\ [][ChunkNext]_vars

-----------------------------------------------------------------------------
(* Claims about detect_system_category *)

ScoreOf(cat) == scores[CHOOSE c \in 1..Len(scores) : scores[c][1] = cat][2]

\* The greatest score of the call, in the order of doubles.
MaxScore ==
    scores[CHOOSE c \in 1..Len(scores) :
              \A e \in 1..Len(scores) : ~FLess(scores[c][2], scores[e][2])][2]

\* The score of category c in exact tenths:
\* sum over its patterns of 3 * w * (title matches) + 1 * w * (body matches).
RECURSIVE ExactTenths(_, _)
ExactTenths(pats, k) ==
    IF k > Len(pats) THEN 0
    ELSE 3 * pats[k].w * FindAllCount(pats[k], title)
         + 1 * pats[k].w * FindAllCount(pats[k], text)
         + ExactTenths(pats, k + 1)

\* C5: the score of every category is the weighted sum of its matches, title
\* matches weighted 3.0 and body matches 1.0 (as doubles: the exact sum up to
\* rounding); the call returns a category of maximal score when that score
\* is at least 2.0 and General when it is below 2.0; one body match of a
\* 1.5-weight pattern alone gives General, one title match of it alone gives
\* its category.
C5_WeightedScoreDecides ==
    dpc = "returned" =>
        /\ Len(scores) = Len(_CAT_PATTERNS)
        /\ \A c \in 1..Len(scores) :
              /\ scores[c][1] = _CAT_PATTERNS[c].cat
              /\ scores[c][2][1] = ExactTenths(_CAT_PATTERNS[c].pats, 1)
        /\ IF FLess(MaxScore, <<20, 0>>)
           THEN category = "General"
           ELSE /\ category # "General"
                /\ ScoreOf(category) = MaxScore
        /\ (text = <<"pressure">> /\ title = <<>>) => category = "General"
        /\ (text = <<>> /\ title = <<"pressure">>) => category = "Hydraulic"

C5_Witness ==
    /\ dpc = "returned"
    /\ text = <<>>
    /\ title = <<"pressure">>
    /\ ScoreOf("Hydraulic") = <<45, 0>>
    /\ category = "Hydraulic"

\* Whether s holds the phrase "Table of Contents".
ContainsTableOfContents(s) ==
    \E i \in 1..Len(s) :
        /\ i + 4 <= Len(s)
        /\ [k \in 1..5 |-> Lower(s[i + k - 1])]
               = <<"table", SP, "of", SP, "contents">>

\* C7 as stated: a text or title that holds "Table of Contents" is
\* classified Non-Content, whatever else matches.
C7_TableOfContentsAlwaysNonContent ==
    (dpc = "returned"
        /\ (ContainsTableOfContents(text) \/ ContainsTableOfContents(title)))
    => category = "Non-Content"

\* C7 amended: a text or title that holds "Table of Contents" is never
\* classified General; it is classified Non-Content exactly when no other
\* category has a strictly greater score.
C7_TableOfContentsUnlessOutscored ==
    (dpc = "returned"
        /\ (ContainsTableOfContents(text) \/ ContainsTableOfContents(title)))
    => /\ category # "General"
       /\ category = "Non-Content"
            <=> \A c \in 1..Len(scores) :
                    ~FLess(ScoreOf("Non-Content"), scores[c][2])

C7_Witness ==
    /\ dpc = "returned"
    /\ ContainsTableOfContents(text)
    /\ ScoreOf("Hydraulic") = <<15, 0>>
    /\ category = "Non-Content"

\* The categories whose score is the greatest of the call.
TopScorers == {c \in 1..Len(scores) : scores[c][2] = MaxScore}

\* C8: when several categories share the greatest score and it is at least
\* 2.0, the call returns the one that comes first in the pattern table.
C8_TieGoesToFirstInTable ==
    (dpc = "returned" /\ Cardinality(TopScorers) >= 2
        /\ ~FLess(MaxScore, <<20, 0>>))
    => category
         = _CAT_PATTERNS[CHOOSE c \in TopScorers :
                             \A e \in TopScorers : c <= e].cat

C8_Witness ==
    /\ dpc = "returned"
    /\ text = <<"electrical", SP, "hydraulic">>
    /\ ScoreOf("Hydraulic") = ScoreOf("Electrical")
    /\ Cardinality(TopScorers) = 2
    /\ category = "Hydraulic"

-----------------------------------------------------------------------------
(* Claims about chunk_text *)

\* The tokens of page k of the call.
PageTokens(k) == Encode(Normalize(pages_text[k].text))

Stride == chunk_size - chunk_overlap

\* The number of k >= 0 with k * Stride < L.
WindowCount(L) == IF L = 0 THEN 0 ELSE ((L - 1) \div Stride) + 1

\* The number of windows of the pages in front of page k.
RECURSIVE ChunksBefore(_)
ChunksBefore(k) ==
    IF k <= 1 THEN 0
    ELSE ChunksBefore(k - 1) + WindowCount(Len(PageTokens(k - 1)))

\* The chunks of the result that carry the number of page k.
ChunksOfPage(k) ==
    {i \in 1..Len(chunks) : chunks[i].page_number = pages_text[k].page_number}

\* C1 as stated: a single page of exactly chunk_size tokens yields exactly
\* one chunk, whose token_count is chunk_size.
C1_ExactPageOneChunk ==
    (cpc = "returned" /\ Len(pages_text) = 1
        /\ Len(PageTokens(1)) = chunk_size)
    => /\ Len(chunks) = 1
       /\ chunks[1].token_count = chunk_size

\* The chunk of page k for its window number j (from 0) is the window from
\* j * Stride up to min(start + chunk_size, L): its content is the text of
\* those tokens and its token_count their number.
WindowChunk(k, j) ==
    LET tokens == PageTokens(k)
        L      == Len(tokens)
        start  == j * Stride
        stop   == IF start + chunk_size < L THEN start + chunk_size ELSE L
        c      == chunks[ChunksBefore(k) + j + 1]
    IN  /\ start < L
        /\ c.token_count = stop - start
        /\ c.content = llm_cleanup(Decode(SubSeq(tokens, start + 1, stop)))

\* C2 as stated: a page of L tokens yields one chunk for each window start
\* k * (chunk_size - chunk_overlap) below L, in ascending order of the starts
\* and no other chunk; the chunk of a start holds the tokens from start up to
\* min(start + chunk_size, L), its token_count is the length of that window,
\* and only the last window of a page is shorter than chunk_size.
C2_OnlyLastWindowShorter ==
    cpc = "returned" =>
        /\ Len(chunks) = ChunksBefore(Len(pages_text) + 1)
        /\ \A k \in 1..Len(pages_text) :
              LET n == WindowCount(Len(PageTokens(k)))
              IN  /\ n * Stride >= Len(PageTokens(k))
                  /\ \A j \in 0..(n - 1) :
                        /\ WindowChunk(k, j)
                        /\ chunks[ChunksBefore(k) + j + 1].token_count
                             < chunk_size => j = n - 1

\* C2 amended: a page of L tokens yields one chunk for each window start
\* k * (chunk_size - chunk_overlap) below L, in ascending order of the starts
\* and no other chunk; the chunk of a start holds the tokens from start up to
\* min(start + chunk_size, L), its token_count is the length of that window,
\* and a window is shorter than chunk_size exactly when start + chunk_size
\* exceeds L, which with an overlap can hold of windows before the last.
C2_OneChunkPerWindowStart ==
    cpc = "returned" =>
        /\ Len(chunks) = ChunksBefore(Len(pages_text) + 1)
        /\ \A k \in 1..Len(pages_text) :
              LET n == WindowCount(Len(PageTokens(k)))
              IN  /\ n * Stride >= Len(PageTokens(k))
                  /\ \A j \in 0..(n - 1) :
                        /\ WindowChunk(k, j)
                        /\ chunks[ChunksBefore(k) + j + 1].token_count
                             <= chunk_size
                        /\ chunks[ChunksBefore(k) + j + 1].token_count
                             < chunk_size
                           <=> j * Stride + chunk_size
                                 > Len(PageTokens(k))

C2_Witness ==
    /\ cpc = "returned"
    /\ Len(pages_text) = 1
    /\ chunk_size = 3
    /\ chunk_overlap = 2
    /\ Len(PageTokens(1)) = 4
    /\ Len(chunks) = 4
    /\ chunks[2].token_count = 3
    /\ chunks[3].token_count = 2
    /\ chunks[4].token_count = 1

\* C3: every chunk holds tokens of one page only and carries that page's
\* number, and the chunks come in the order of the pages; three pages
\* numbered 1, 2, 3 of 650 tokens each, cut with chunk_size 600 and
\* chunk_overlap 50, give six chunks with page numbers 1, 1, 2, 2, 3, 3, the
\* two of a page being the windows that start at 0 and at 550.
C3_ChunksStayOnTheirPageInPageOrder ==
    cpc = "returned" =>
        /\ \A k \in 1..Len(pages_text) :
              /\ ChunksOfPage(k)
                   = {ChunksBefore(k) + j :
                        j \in 1..WindowCount(Len(PageTokens(k)))}
              /\ \A i \in ChunksOfPage(k) :
                    \E lo \in 1..Len(PageTokens(k)) :
                        chunks[i].content
                          = llm_cleanup(Decode(SubSeq(PageTokens(k), lo,
                                           lo + chunks[i].token_count - 1)))
        /\ \A i \in 1..Len(chunks) :
              \E k \in 1..Len(pages_text) : i \in ChunksOfPage(k)
        /\ ( /\ Len(pages_text) = 3
             /\ \A k \in 1..3 : /\ pages_text[k].page_number = k
                                /\ Len(PageTokens(k)) = 650
             /\ chunk_size = 600
             /\ chunk_overlap = 50 )
           => /\ [i \in 1..Len(chunks) |-> chunks[i].page_number]
                   = <<1, 1, 2, 2, 3, 3>>
              /\ \A k \in 1..3 :
                    /\ chunks[2 * k - 1].content
                         = Decode(SubSeq(PageTokens(k), 1, 600))
                    /\ chunks[2 * k].content
                         = Decode(SubSeq(PageTokens(k), 551, 650))

C3_Witness ==
    /\ cpc = "returned"
    /\ Len(pages_text) = 3
    /\ chunk_size = 600
    /\ chunk_overlap = 50
    /\ Len(PageTokens(2)) = 650
    /\ Len(chunks) = 6
    /\ chunks[4].page_number = 2
    /\ chunks[4].token_count = 100

\* C4 as stated, for a page that has text: a page of fewer tokens than
\* chunk_overlap yields exactly one chunk.  (A page without any token yields
\* no chunk at all.)
C4_ShortPageOneChunk ==
    cpc = "returned" =>
        \A k \in 1..Len(pages_text) :
            (Len(PageTokens(k)) >= 1 /\ Len(PageTokens(k)) < chunk_overlap)
            => Cardinality(ChunksOfPage(k)) = 1

-----------------------------------------------------------------------------
(* Calls of detect_system_category on their own and from chunk_text *)

CategoryInit == ClassifyInit \/ ChunkInit
CategoryNext == ClassifyNext \/ ChunkNext
CategorySpec == CategoryInit /\ [][CategoryNext]_vars

\* The closed set of labels.
Labels ==
    {"Non-Content", "Hydraulic", "Electrical", "Avionics", "Powerplant",
     "Landing Gear", "Maintenance", "Fuel System", "Environmental",
     "Flight Controls", "Emergency Procedures", "Limitations",
     "Operating Procedures", "General"}

\* Whether a pattern of the table matches somewhere in s.
SomePatternMatches(s) ==
    \E c \in 1..Len(_CAT_PATTERNS) :
        \E k \in 1..Len(_CAT_PATTERNS[c].pats) :
            FindAllCount(_CAT_PATTERNS[c].pats[k], s) > 0

\* C6: for every text and title, the empty title included, the call returns
\* one label of the closed set, and General when no pattern matches in the
\* title or the body; every chunk of chunk_text carries a label of the set.
C6_LabelOfClosedSet ==
    /\ dpc = "returned" =>
          /\ category \in Labels
          /\ (~SomePatternMatches(text) /\ ~SomePatternMatches(title))
             => category = "General"
    /\ cpc = "returned" =>
          \A i \in 1..Len(chunks) :
              /\ chunks[i].system_category \in Labels
              /\ (~SomePatternMatches(chunks[i].content)
                    /\ ~SomePatternMatches(chunks[i].section_title))
                 => chunks[i].system_category = "General"

C6_Witness ==
    /\ cpc = "returned"
    /\ Len(chunks) = 2
    /\ chunks[1].system_category = "General"
    /\ chunks[2].system_category = "Hydraulic"
    /\ ~SomePatternMatches(chunks[1].content)

-----------------------------------------------------------------------------
(* The embedding stage: generate_embeddings (three attempts per chunk) and *)
(* embed_with_openai (one attempt per chunk).  A step is one call of the   *)
(* provider together with the code that runs up to the next call.         *)
(*                                                                         *)
(*   impl        the function running                                      *)
(*   echunks     its argument, the chunk dictionaries as they are now      *)
(*   ei          the position of the chunk in work (i + 1)                 *)
(*   attempt     the attempt of the retry loop, from 0                     *)
(*   successful, failed   the counters of generate_embeddings              *)
(*   embedded    the list returned                                         *)
(*   elog        the provider calls and the sleeps so far                  *)
(*   budget      the calls the provider is still going to fail             *)

MaxChunks   == 3
MaxFailures == 4

\* Mutant of retry_attempts: one attempt more.
RetryAttemptsOneMore == 3 + 1

retry_attempts == 3
RetryPause     == 5     \* time.sleep(5) before a retry
RateLimitEvery == 50    \* (i + 1) % 50 == 0
RateLimitPause == 5     \* pause_time = 5
EMBEDDING_MODEL == "text-embedding-3-small"

None == <<"None">>
\* response.data[0].embedding of the call that is number k of the run.
Vector(k) == <<"vector", k>>

CallEvent(i, ok) == [op |-> "call", chunk |-> i, ok |-> ok, secs |-> 0]
SleepEvent(i, secs) == [op |-> "sleep", chunk |-> i, ok |-> TRUE, secs |-> secs]
\* The sleep of the rate limit behind chunk i (lines 184-187).
PauseEvent(i) ==
    [op |-> "pause", chunk |-> i, ok |-> TRUE, secs |-> RateLimitPause]

\* Runs long enough for the rate-limit pause: one chunk short of it, up to
\* it, one chunk beyond it, and up to the second pause.
RateLimitRuns ==
    {RateLimitEvery - 1, RateLimitEvery, RateLimitEvery + 1,
     2 * RateLimitEvery}

\* Chunk dictionaries as chunk_text makes them, one per page.
InputChunk(i) == MakeChunk(i, Encode(PlainText(2, i)), 0, PDF_BASENAME, 2)
InputChunks(n) == [i \in 1..n |-> InputChunk(i)]

\* chunk[key] = value
SetKey(chunk, key, value) ==
    [k \in DOMAIN chunk \cup {key} |-> IF k = key THEN value ELSE chunk[k]]

EmbedInit ==
    /\ \/ /\ impl \in {"generate_embeddings", "embed_with_openai"}
          /\ \E n \in 0..MaxChunks : echunks = InputChunks(n)
          /\ budget \in 0..MaxFailures
          /\ flaky = 1..Len(echunks)
       \/ /\ impl = "generate_embeddings"
          /\ \E n \in RateLimitRuns : echunks = InputChunks(n)
          /\ flaky \in {{}, {RateLimitEvery}}
          /\ budget = retry_attempts * Cardinality(flaky)
    /\ ei = 1
    /\ attempt = 0
    /\ successful = 0
    /\ failed = 0
    /\ embedded = <<>>
    /\ elog = <<>>
    /\ epc = "loop"
    /\ ClassifyIdle /\ ChunkIdle /\ UploadIdle /\ MainIdle

\* Mutant of ValidChunks: nothing is filtered out.
ValidChunksUnfiltered(cs) == cs

\* valid_chunks = [c for c in chunks if c["embedding"] is not None]
ValidChunks(cs) == SelectSeq(cs, LAMBDA c : c.embedding # None)

\* Mutant of GenerateNextChunk: the pause is taken on i % 50 == 0, ahead of
\* the 51st, 101st, ... chunk and behind the first.
GenerateNextChunkPauseOnIndex(cs, log) ==
    /\ elog' = IF (ei - 1) % RateLimitEvery = 0
               THEN Append(log, PauseEvent(ei)) ELSE log
    /\ echunks' = cs
    /\ ei' = ei + 1
    /\ attempt' = 0
    /\ IF ei = Len(cs)
       THEN /\ embedded' = ValidChunks(cs)
            /\ epc' = "returned"
       ELSE UNCHANGED <<embedded, epc>>

\* generate_embeddings behind the retry loop of chunk ei, the chunks being
\* cs and the log so far log: the rate-limit pause, then the next chunk, or
\* the filter and the return behind the last one.
GenerateNextChunk(cs, log) ==
    /\ elog' = IF ei % RateLimitEvery = 0
               THEN Append(log, PauseEvent(ei)) ELSE log
    /\ echunks' = cs
    /\ ei' = ei + 1
    /\ attempt' = 0
    /\ IF ei = Len(cs)
       THEN /\ embedded' = ValidChunks(cs)
            /\ epc' = "returned"
       ELSE UNCHANGED <<embedded, epc>>

\* The call of the attempt returns an embedding: lines 159-170.
GenerateCallSucceeds ==
    /\ impl = "generate_embeddings" /\ epc = "loop" /\ ei <= Len(echunks)
    /\ successful' = successful + 1
    /\ GenerateNextChunk(
          [echunks EXCEPT ![ei] = SetKey(@, "embedding",
                                         Vector(Len(elog) + 1))],
          Append(elog, CallEvent(ei, TRUE)))
    /\ UNCHANGED <<impl, failed, budget, flaky,
                   classifyVars, chunkVars, uploadVars, mainVars>>

\* The call raises and attempts remain: lines 172-176.
GenerateCallFailsRetry ==
    /\ impl = "generate_embeddings" /\ epc = "loop" /\ ei <= Len(echunks)
    /\ budget > 0 /\ ei \in flaky
    /\ attempt < retry_attempts - 1
    /\ elog' = elog \o <<CallEvent(ei, FALSE), SleepEvent(ei, RetryPause)>>
    /\ attempt' = attempt + 1
    /\ budget' = budget - 1
    /\ UNCHANGED <<impl, echunks, ei, successful, failed, embedded, epc,
                   flaky, classifyVars, chunkVars, uploadVars, mainVars>>

\* The call of the last attempt raises: lines 177-181.
GenerateCallFailsLast ==
    /\ impl = "generate_embeddings" /\ epc = "loop" /\ ei <= Len(echunks)
    /\ budget > 0 /\ ei \in flaky
    /\ attempt >= retry_attempts - 1
    /\ failed' = failed + 1
    /\ budget' = budget - 1
    /\ GenerateNextChunk(
          [echunks EXCEPT ![ei] = SetKey(@, "embedding", None)],
          Append(elog, CallEvent(ei, FALSE)))
    /\ UNCHANGED <<impl, successful, flaky,
                   classifyVars, chunkVars, uploadVars, mainVars>>

\* No chunk at all: the loop is not entered.
GenerateNothing ==
    /\ impl = "generate_embeddings" /\ epc = "loop" /\ echunks = <<>>
    /\ embedded' = <<>>
    /\ epc' = "returned"
    /\ UNCHANGED <<impl, echunks, ei, attempt, successful, failed, elog,
                   budget, flaky,
                   classifyVars, chunkVars, uploadVars, mainVars>>

\* embed_with_openai behind the try statement of chunk ei.
OpenaiNextChunk ==
    /\ ei' = ei + 1
    /\ epc' = IF ei = Len(echunks) THEN "returned" ELSE epc
    /\ UNCHANGED <<impl, attempt, successful, failed, flaky,
                   classifyVars, chunkVars, uploadVars, mainVars>>

\* The call returns an embedding: lines 44-51.
OpenaiCallSucceeds ==
    /\ impl = "embed_with_openai" /\ epc = "loop" /\ ei <= Len(echunks)
    /\ LET chunk == SetKey(SetKey(echunks[ei], "embedding",
                                  Vector(Len(elog) + 1)),
                           "embedding_model", EMBEDDING_MODEL)
       IN  /\ echunks' = [echunks EXCEPT ![ei] = chunk]
           /\ embedded' = Append(embedded, chunk)
    /\ elog' = Append(elog, CallEvent(ei, TRUE))
    /\ UNCHANGED budget
    /\ OpenaiNextChunk

\* The call raises: lines 52-53; the function has no counter of failures.
OpenaiCallFails ==
    /\ impl = "embed_with_openai" /\ epc = "loop" /\ ei <= Len(echunks)
    /\ budget > 0 /\ ei \in flaky
    /\ budget' = budget - 1
    /\ elog' = Append(elog, CallEvent(ei, FALSE))
    /\ UNCHANGED <<echunks, embedded>>
    /\ OpenaiNextChunk

OpenaiNothing ==
    /\ impl = "embed_with_openai" /\ epc = "loop" /\ echunks = <<>>
    /\ epc' = "returned"
    /\ UNCHANGED <<impl, echunks, ei, attempt, successful, failed, embedded,
                   elog, budget, flaky,
                   classifyVars, chunkVars, uploadVars, mainVars>>

EmbedNext ==
    \/ GenerateCallSucceeds
    \/ GenerateCallFailsRetry
    \/ GenerateCallFailsLast
    \/ GenerateNothing
    \/ OpenaiCallSucceeds
    \/ OpenaiCallFails
    \/ OpenaiNothing

EmbedSpec == EmbedInit /\ [][EmbedNext]_vars

-----------------------------------------------------------------------------
(* Claims about the embedding stage *)

\* The positions in the log of the provider calls for chunk i.
CallsOf(i) ==
    {p \in 1..Len(elog) : elog[p].op = "call" /\ elog[p].chunk = i}

\* Chunk i is behind its last attempt and every call for it failed.
FailedEveryAttempt(i) ==
    /\ i < ei
    /\ CallsOf(i) # {}
    /\ \A p \in CallsOf(i) : ~elog[p].ok

\* C9 as stated: a chunk whose provider call fails on every attempt raises
\* the failure counter by one, once, is absent from the output of the stage,
\* and every chunk behind it is still attempted.
C9_FailedChunkDroppedAndCountedOnce ==
    /\ failed = Cardinality({i \in 1..Len(echunks) : FailedEveryAttempt(i)})
    /\ epc = "returned" =>
          /\ \A i \in 1..Len(echunks) :
                FailedEveryAttempt(i)
                => \A j \in 1..Len(embedded) : embedded[j].page_number # i
          /\ \A i \in 1..Len(echunks) : CallsOf(i) # {}

\* C10: the stage calls the provider at most 3 times for a chunk and never
\* again after a call for it succeeded; a failed call and the next call for
\* the same chunk have a sleep of 5 between them; a chunk whose first or
\* second call failed and whose second or third call succeeded is in the
\* output with the embedding of that call.
C10_AtMostThreeCallsWithBackoff ==
    \A i \in 1..Len(echunks) :
        /\ Cardinality(CallsOf(i)) <= 3
        /\ \A p \in CallsOf(i) :
              /\ elog[p].ok => \A q \in CallsOf(i) : q <= p
              /\ (~elog[p].ok /\ \E q \in CallsOf(i) : q > p)
                 => /\ elog[p + 1].op = "sleep"
                    /\ elog[p + 1].secs = 5
                    /\ p + 2 \in CallsOf(i)
        /\ (epc = "returned" /\ Cardinality(CallsOf(i)) \in {2, 3})
           => \A p \in CallsOf(i) :
                 elog[p].ok
                 => \E j \in 1..Len(embedded) :
                       /\ embedded[j].page_number = i
                       /\ embedded[j].embedding = Vector(p)

C10_Witness ==
    /\ epc = "returned"
    /\ impl = "generate_embeddings"
    /\ Len(echunks) = 2
    /\ Cardinality(CallsOf(1)) = 3
    /\ \E p \in CallsOf(1) : elog[p].ok
    /\ Cardinality(CallsOf(2)) = 2
    /\ Len(embedded) = 2
    /\ successful = 2
    /\ failed = 0

\* The position in the log of the call for chunk i that succeeded (0: none).
SucceededCall(i) ==
    LET ok == {p \in CallsOf(i) : elog[p].ok}
    IN  IF ok = {} THEN 0 ELSE CHOOSE p \in ok : TRUE

\* Record rec has every field of record c, with the value it has in c.
SameFields(rec, c) ==
    \A k \in DOMAIN c : k \in DOMAIN rec /\ rec[k] = c[k]

\* C11: the stage returns the input chunks that had a successful provider
\* call, each once and in input order, with every field of the input as it
\* was and the embedding that call returned; no returned chunk has no
\* embedding and no chunk with a successful call is missing.
C11_ReturnsExactlyTheEmbeddedChunks ==
    epc = "returned" =>
        LET done == SelectSeq(Indices(echunks),
                              LAMBDA i : SucceededCall(i) # 0)
        IN  /\ Len(embedded) = Len(done)
            /\ \A j \in 1..Len(embedded) :
                  /\ "embedding" \in DOMAIN embedded[j]
                  /\ embedded[j].embedding # None
                  /\ embedded[j].embedding = Vector(SucceededCall(done[j]))
                  /\ SameFields(embedded[j], InputChunk(done[j]))

C11_Witness ==
    /\ epc = "returned"
    /\ Len(echunks) = 3
    /\ SucceededCall(1) # 0
    /\ SucceededCall(2) = 0
    /\ SucceededCall(3) # 0
    /\ Len(embedded) = 2
    /\ embedded[2].page_number = 3

\* The positions in the log of the rate-limit pauses behind chunk i.
PausesOf(i) ==
    {p \in 1..Len(elog) : elog[p].op = "pause" /\ elog[p].chunk = i}

\* C20: generate_embeddings pauses for 5 behind the 50th, 100th, ... chunk,
\* whether the chunk got its embedding or failed: once behind the last call
\* for that chunk and ahead of the first call for the next; it pauses
\* nowhere else, so a run over n chunks has made n div 50 pauses when it
\* returns.
C20_PauseAfterEveryFiftiethChunk ==
    impl = "generate_embeddings" =>
        /\ \A i \in 1..Len(echunks) :
              /\ Cardinality(PausesOf(i))
                   = IF i < ei /\ i % 50 = 0 THEN 1 ELSE 0
              /\ \A p \in PausesOf(i) :
                    /\ elog[p].secs = 5
                    /\ p - 1 \in CallsOf(i)
                    /\ \A q \in CallsOf(i) : q < p
                    /\ p < Len(elog) => p + 1 \in CallsOf(i + 1)
        /\ \A p \in 1..Len(elog) :
              elog[p].op = "pause" => elog[p].chunk \in 1..Len(echunks)
        /\ epc = "returned" =>
              Cardinality({p \in 1..Len(elog) : elog[p].op = "pause"})
                = Len(echunks) \div 50

C20_Witness ==
    /\ epc = "returned"
    /\ impl = "generate_embeddings"
    /\ Len(echunks) = 100
    /\ failed = 1
    /\ SucceededCall(50) = 0
    /\ PausesOf(50) # {}
    /\ PausesOf(100) # {}
    /\ Len(embedded) = 99

-----------------------------------------------------------------------------
(* The old pipeline's chunk_text and detect_system_category                *)
(* (OLD-doesnt-save-interim-process_manual.py).  Its classifier is a chain *)
(* of re.search calls on the lower-cased text; a keyword is found wherever *)
(* its characters stand.  In the texts drawn for the old pipeline no word  *)
(* holds a keyword as a proper part, so a keyword is found exactly where   *)
(* its lexemes stand.                                                      *)

OLD_KEYWORDS == <<
  [cat |-> "Hydraulic", alts |->
     <<W("hydraulic"), W("actuator"), W("fluid"), W("pressure"),
       W("reservoir"), W("pump"), W("valve"), W("cylinder")>>],
  [cat |-> "Electrical", alts |->
     <<W("electric"), W("circuit"), W("voltage"), W("wire"), W("battery"),
       W("generator"), W("power"), W("bus"), W("breaker")>>],
  [cat |-> "Avionics", alts |->
     <<W("avionic"), W("instrument"), W("display"), W("navigation"),
       W("communication"), W("radar"), W("computer"), W("software")>>],
  [cat |-> "Powerplant", alts |->
     <<W("engine"), W("thrust"), W("power"), W("fuel"), W("combustion"),
       W("turbine"), W("compressor"), W("exhaust"), W("ignition")>>],
  [cat |-> "Landing Gear", alts |->
     <<W("landing"), W("gear"), W("wheel"), W("brake"), W("tire"),
       W("strut"), W("shock"), W2("nose", "gear"), W("extend"),
       W("retract")>>],
  [cat |-> "Maintenance", alts |->
     <<W("inspect"), W("check"), W("maintenance"), W("interval"),
       W("schedule"), W("service"), W("lubricate"), W("procedure")>>],
  [cat |-> "Fuel System", alts |->
     <<W("fuel"), W("tank"), W("pump"), W("valve"), W("selector"),
       W("quantity"), W("indicator"), W("flow"), W("consumption")>>],
  [cat |-> "Environmental", alts |->
     <<W("environmental"), W("air"), W("conditioning"), W("pressurization"),
       W("temperature"), W("ventilation"), W("oxygen")>>],
  [cat |-> "Flight Controls", alts |->
     <<W2("flight", "control"), W("aileron"), W("elevator"), W("rudder"),
       W("flap"), W("spoiler"), W("trim"), W("autopilot")>>],
  [cat |-> "Emergency Procedures", alts |->
     <<W("emergency"), W("procedure"), W("warning"), W("caution"),
       W("danger"), W("abnormal"), W("failure"), W("malfunction")>>],
  [cat |-> "Limitations", alts |->
     <<W("limitation"), W("performance"), W("weight"), W("balance"),
       W("loading"), W3("center", "of", "gravity"), W("cg")>>],
  [cat |-> "Operating Procedures", alts |->
     <<W("operational"), W("normal"), W("procedure"), W("checklist"),
       W("preflight"), W("postflight")>>] >>

\* re.search(alternatives, text_lower) finds something.
OldSearch(alts, s) ==
    \E k \in 1..Len(alts) :
        \E i \in 1..Len(s) :
            /\ i + Len(alts[k]) - 1 <= Len(s)
            /\ \A j \in 1..Len(alts[k]) : Lower(s[i + j - 1]) = alts[k][j]

\* The if/elif chain: the first category one of whose keywords is found.
old_detect_system_category(s) ==
    LET hits == {c \in 1..Len(OLD_KEYWORDS) : OldSearch(OLD_KEYWORDS[c].alts, s)}
    IN  IF hits = {} THEN "General"
        ELSE OLD_KEYWORDS[CHOOSE c \in hits : \A e \in hits : c <= e].cat

\* The body of the old inner loop for window start i: no cleanup, no
\* token_count.
OldMakeChunk(page_number, tokens, i, size) ==
    LET content == Decode(Slice(tokens, i, size))
    IN  [content         |-> content,
         page_number     |-> page_number,
         section_title   |-> SectionTitle(content),
         aircraft_model  |-> AIRCRAFT_MODEL,
         document_id     |-> PDF_BASENAME,
         system_category |-> old_detect_system_category(content)]

OldPageChunks(page, size, overlap) ==
    LET tokens == Encode(Normalize(page.text))
        starts == WindowStarts(Len(tokens), size, overlap)
    IN  [k \in 1..Len(starts) |->
           OldMakeChunk(page.page_number, tokens, starts[k], size)]

RECURSIVE old_chunk_text(_, _, _)
old_chunk_text(pages, size, overlap) ==
    IF pages = <<>> THEN <<>>
    ELSE OldPageChunks(Head(pages), size, overlap)
         \o old_chunk_text(Tail(pages), size, overlap)

-----------------------------------------------------------------------------
(* The upload stage: upload_to_supabase of the old pipeline                *)
(* (OLD-doesnt-save-interim-process_manual.py, lines 195-252) and of       *)
(* embed_chunks.py (lines 83-148).  One step is one request to the store   *)
(* with everything the function does on its answer up to the next request. *)
(* An insert either stores all rows of the request and answers with them,  *)
(* answers with no rows and stores nothing, or raises and stores nothing.  *)

MaxBatches == 2

\* Mutant of max_retries: one more attempt.
MaxRetriesOneMore == 3 + 1

batch_size         == 50
max_retries        == 3
UploadRetryPause   == 3
BetweenBatchesPause == 2
DOCUMENT_TYPE      == "AFM"

InsertOutcomes == {"ok", "empty", "throw"}

InsertEvent(i, n, a, outcome) ==
    [op |-> "insert", start |-> i, rows |-> n, attempt |-> a,
     outcome |-> outcome, secs |-> 0]
UploadSleepEvent(i, secs) ==
    [op |-> "sleep", start |-> i, rows |-> 0, attempt |-> 0,
     outcome |-> "ok", secs |-> secs]
SelectEvent(ok) ==
    [op |-> "select", start |-> 0, rows |-> 0, attempt |-> 0,
     outcome |-> IF ok THEN "ok" ELSE "throw", secs |-> 0]

\* Mutant of Batch: every request carries the first slice of the input.
BatchFromStart(cs, i) == Slice(cs, 0, batch_size)

\* chunks[i:i + batch_size]
Batch(cs, i) == Slice(cs, i, batch_size)

\* The row built from a chunk by the old pipeline: lines 215-226.
OldRow(chunk) ==
    [content         |-> chunk.content,
     embedding       |-> chunk.embedding,
     page_number     |-> chunk.page_number,
     section_title   |-> chunk.section_title,
     aircraft_model  |-> chunk.aircraft_model,
     document_id     |-> chunk.document_id,
     system_category |-> chunk.system_category,
     metadata        |-> [token_count |-> Len(Encode(chunk.content))]]

\* The row built by embed_chunks.py: lines 109-121.
NewRow(chunk) ==
    [content         |-> chunk.content,
     embedding       |-> chunk.embedding,
     page_number     |-> chunk.page_number,
     section_title   |-> chunk.section_title,
     aircraft_model  |-> chunk.aircraft_model,
     document_id     |-> chunk.document_id,
     system_category |-> chunk.system_category,
     document_type   |-> DOCUMENT_TYPE,
     metadata        |-> [token_count |->
                            IF "token_count" \in DOMAIN chunk
                            THEN chunk.token_count ELSE 0]]

Rows(fn, batch) ==
    [k \in 1..Len(batch) |->
       IF fn = "old_upload" THEN OldRow(batch[k]) ELSE NewRow(batch[k])]

\* A chunk as the old pipeline hands it to its upload, and as
\* embed_with_openai hands it to the upload of embed_chunks.py.
OldEmbeddedChunk(i) ==
    SetKey(OldMakeChunk(i, Encode(PlainText(2, i)), 0, 2),
           "embedding", Vector(i))
NewEmbeddedChunk(i) ==
    SetKey(SetKey(InputChunk(i), "embedding", Vector(i)),
           "embedding_model", EMBEDDING_MODEL)
EmbeddedChunks(fn, n) ==
    [i \in 1..n |->
       IF fn = "old_upload" THEN OldEmbeddedChunk(i) ELSE NewEmbeddedChunk(i)]

\* Whole batches, and whole batches with one chunk more.
UploadSizes ==
    {batch_size * b : b \in 0..MaxBatches}
      \cup {batch_size * b + 1 : b \in 0..(MaxBatches - 1)}

UploadInit ==
    /\ uimpl \in {"old_upload", "new_upload"}
    /\ \E n \in UploadSizes : uchunks = EmbeddedChunks(uimpl, n)
    /\ ui = 0
    /\ uattempt = 0
    /\ usuccessful = 0
    /\ ufailed = 0
    /\ store = <<>>
    /\ ulog = <<>>
    /\ upc = IF uimpl = "new_upload" THEN "test"
             ELSE IF uchunks = <<>> THEN "returned" ELSE "loop"
    /\ ClassifyIdle /\ ChunkIdle /\ EmbedIdle /\ MainIdle

\* Mutant of OldNextBatch: the upload gives up behind a batch that ran out
\* of attempts.
OldNextBatchGivesUp(log) ==
    /\ ulog' = log
    /\ ui' = ui + batch_size
    /\ uattempt' = 0
    /\ upc' = IF ui + batch_size < Len(uchunks) /\ uattempt < max_retries - 1
              THEN "loop" ELSE "returned"

\* Behind the retry loop of the old upload: the pause between batches
\* (lines 249-250) and the next round of the loop of line 205.
OldNextBatch(log) ==
    /\ ulog' = IF ui + batch_size < Len(uchunks)
               THEN Append(log, UploadSleepEvent(ui, BetweenBatchesPause))
               ELSE log
    /\ ui' = ui + batch_size
    /\ uattempt' = 0
    /\ upc' = IF ui + batch_size < Len(uchunks) THEN "loop" ELSE "returned"

\* The insert stores the rows and answers with them: lines 233-236.
OldInsertOk ==
    /\ uimpl = "old_upload" /\ upc = "loop"
    /\ LET data == Rows(uimpl, Batch(uchunks, ui))
       IN  /\ store' = store \o data
           /\ usuccessful' = usuccessful + Len(data)
           /\ OldNextBatch(Append(ulog,
                 InsertEvent(ui, Len(data), uattempt, "ok")))
    /\ UNCHANGED <<uimpl, uchunks, ufailed,
                   classifyVars, chunkVars, embedVars, mainVars>>

\* The insert answers with no rows: len(result.data) is 0, and line 236
\* leaves the retry loop.
OldInsertEmpty ==
    /\ uimpl = "old_upload" /\ upc = "loop"
    /\ LET data == Rows(uimpl, Batch(uchunks, ui))
       IN  /\ usuccessful' = usuccessful + 0
           /\ OldNextBatch(Append(ulog,
                 InsertEvent(ui, Len(data), uattempt, "empty")))
    /\ UNCHANGED <<uimpl, uchunks, ufailed, store,
                   classifyVars, chunkVars, embedVars, mainVars>>

\* The insert raises and attempts remain: lines 238-242.
OldInsertThrowsRetry ==
    /\ uimpl = "old_upload" /\ upc = "loop"
    /\ uattempt < max_retries - 1
    /\ ulog' = ulog \o
         <<InsertEvent(ui, Len(Batch(uchunks, ui)), uattempt, "throw"),
           UploadSleepEvent(ui, UploadRetryPause)>>
    /\ uattempt' = uattempt + 1
    /\ UNCHANGED <<uimpl, uchunks, ui, usuccessful, ufailed, store, upc,
                   classifyVars, chunkVars, embedVars, mainVars>>

\* The insert of the last attempt raises: lines 243-246.
OldInsertThrowsLast ==
    /\ uimpl = "old_upload" /\ upc = "loop"
    /\ uattempt >= max_retries - 1
    /\ ufailed' = ufailed + Len(Batch(uchunks, ui))
    /\ OldNextBatch(Append(ulog,
          InsertEvent(ui, Len(Batch(uchunks, ui)), uattempt, "throw")))
    /\ UNCHANGED <<uimpl, uchunks, usuccessful, store,
                   classifyVars, chunkVars, embedVars, mainVars>>

\* The connection test of embed_chunks.py, whose failure is only printed:
\* lines 90-99.
NewConnectionTest ==
    /\ uimpl = "new_upload" /\ upc = "test"
    /\ \E ok \in BOOLEAN : ulog' = Append(ulog, SelectEvent(ok))
    /\ upc' = IF uchunks = <<>> THEN "returned" ELSE "loop"
    /\ UNCHANGED <<uimpl, uchunks, ui, uattempt, usuccessful, ufailed, store,
                   classifyVars, chunkVars, embedVars, mainVars>>

\* The next round of the loop of line 105.
NewNextBatch ==
    /\ ui' = ui + batch_size
    /\ upc' = IF ui + batch_size < Len(uchunks) THEN "loop" ELSE "returned"
    /\ UNCHANGED <<uimpl, uchunks, uattempt,
                   classifyVars, chunkVars, embedVars, mainVars>>

\* The insert stores the rows and answers with them: lines 125-129.
NewInsertOk ==
    /\ uimpl = "new_upload" /\ upc = "loop"
    /\ LET data == Rows(uimpl, Batch(uchunks, ui))
       IN  /\ store' = store \o data
           /\ usuccessful' = usuccessful + Len(data)
           /\ ulog' = Append(ulog, InsertEvent(ui, Len(data), 0, "ok"))
    /\ UNCHANGED ufailed
    /\ NewNextBatch

\* The insert answers with no rows: lines 130-136.
NewInsertEmpty ==
    /\ uimpl = "new_upload" /\ upc = "loop"
    /\ ufailed' = ufailed + Len(Batch(uchunks, ui))
    /\ ulog' = Append(ulog,
          InsertEvent(ui, Len(Batch(uchunks, ui)), 0, "empty"))
    /\ UNCHANGED <<usuccessful, store>>
    /\ NewNextBatch

\* The insert raises: lines 138-146.
NewInsertThrows ==
    /\ uimpl = "new_upload" /\ upc = "loop"
    /\ ufailed' = ufailed + Len(Batch(uchunks, ui))
    /\ ulog' = Append(ulog,
          InsertEvent(ui, Len(Batch(uchunks, ui)), 0, "throw"))
    /\ UNCHANGED <<usuccessful, store>>
    /\ NewNextBatch

UploadNext ==
    \/ OldInsertOk
    \/ OldInsertEmpty
    \/ OldInsertThrowsRetry
    \/ OldInsertThrowsLast
    \/ NewConnectionTest
    \/ NewInsertOk
    \/ NewInsertEmpty
    \/ NewInsertThrows

UploadSpec == UploadInit /\ [][UploadNext]_vars

-----------------------------------------------------------------------------
(* Claims about the upload stage                                           *)

\* Positions of the insert attempts of the batch that starts at index i.
InsertsOf(i) ==
    {p \in 1..Len(ulog) : ulog[p].op = "insert" /\ ulog[p].start = i}

\* The start indices of the batches of the input.
BatchStarts == {i \in 0..(Len(uchunks) - 1) : i % 50 = 0}

\* The attempt made by the step, when it makes one.
StepAttempt == ulog'[Len(ulog) + 1]

StepMakesAttempt ==
    /\ Len(ulog') > Len(ulog)
    /\ StepAttempt.op = "insert"

\* C12: a batch of 50 chunks whose insert throws on every attempt raises the
\* failure counter by exactly 50, once, on the step of its last attempt; no
\* throwing attempt changes the success counter; the batch behind it is
\* attempted all the same, so that a finished upload has attempted every
\* batch.
C12_ThrowingBatchCountedFailedOnce ==
    /\ [][(StepMakesAttempt /\ StepAttempt.outcome = "throw"
            /\ StepAttempt.rows = 50) =>
            /\ usuccessful' = usuccessful
            /\ IF ui' = ui
               THEN ufailed' = ufailed
               ELSE /\ ufailed' = ufailed + 50
                    /\ \A p \in InsertsOf(ui) : ulog[p].outcome = "throw"
                    /\ ui + 50 < Len(uchunks) => upc' = "loop" /\ ui' = ui + 50
         ]_vars
    /\ [](upc = "returned" => \A i \in BatchStarts : InsertsOf(i) # {})

\* The first batch of two threw on each of its attempts and the second was
\* inserted.
C12_Witness ==
    /\ upc = "returned" /\ Len(uchunks) = 100
    /\ InsertsOf(0) # {}
    /\ \A p \in InsertsOf(0) : ulog[p].outcome = "throw"
    /\ \E p \in InsertsOf(50) : ulog[p].outcome = "ok"
    /\ ufailed = 50 /\ usuccessful = 50

\* The batches none of whose attempts inserted anything, once they are over.
Over(i) == upc = "returned" \/ i < ui
RowsOf(i) == IF i + 50 < Len(uchunks) THEN 50 ELSE Len(uchunks) - i

RECURSIVE SumRows(_)
SumRows(starts) ==
    IF starts = {} THEN 0
    ELSE LET i == CHOOSE x \in starts : TRUE
         IN  RowsOf(i) + SumRows(starts \ {i})

\* C13: an insert attempt that answers with no rows is handled like one that
\* throws: while attempts remain (3 in all) the fixed delay and another
\* attempt of the same batch follow it, and the records of the batches none
\* of whose attempts inserted anything are all counted as failed.
C13_EmptyAnswerHandledLikeThrow ==
    /\ \A p \in 1..Len(ulog) :
          (ulog[p].op = "insert" /\ ulog[p].outcome = "empty"
             /\ ulog[p].attempt < 3 - 1) =>
              /\ p + 2 <= Len(ulog)
              /\ ulog[p + 1].op = "sleep"
              /\ ulog[p + 2].op = "insert"
              /\ ulog[p + 2].start = ulog[p].start
              /\ ulog[p + 2].attempt = ulog[p].attempt + 1
    /\ ufailed = SumRows({i \in BatchStarts :
                            /\ Over(i)
                            /\ \A p \in InsertsOf(i) : ulog[p].outcome # "ok"})

\* C19: each batch gets at most 3 insert attempts, none after an attempt that
\* inserted its records; the attempts of a batch all come before the first
\* attempt of the next batch; the batches are the consecutive slices of 50
\* chunks of the input, the last one possibly shorter.
C19_BatchesInOrderAtMostThreeAttempts ==
    /\ \A p \in 1..Len(ulog) : ulog[p].op = "insert" =>
          /\ ulog[p].start \in BatchStarts
          /\ ulog[p].rows = RowsOf(ulog[p].start)
          /\ ulog[p].rows \in 1..50
          /\ \A q \in 1..(p - 1) : ulog[q].op = "insert" =>
                /\ ulog[q].start <= ulog[p].start
                /\ ulog[q].start = ulog[p].start => ulog[q].outcome # "ok"
    /\ \A i \in BatchStarts :
          /\ Cardinality(InsertsOf(i)) <= 3
          /\ Over(i) => InsertsOf(i) # {}
          /\ ~Over(i) /\ i > ui => InsertsOf(i) = {}

\* The first batch was inserted on its third attempt, the second, shorter
\* one on its first.
C19_Witness ==
    /\ upc = "returned" /\ Len(uchunks) = 51
    /\ Cardinality(InsertsOf(0)) = 3
    /\ \E p \in InsertsOf(0) : ulog[p].outcome = "ok"
    /\ \E p \in InsertsOf(50) : ulog[p].outcome = "ok" /\ ulog[p].rows = 1
    /\ Len(store) = 51

-----------------------------------------------------------------------------
(* The embedding and upload stages together                                *)

StagesInit == EmbedInit \/ UploadInit
StagesNext == EmbedNext \/ UploadNext
StagesSpec == StagesInit /\ [][StagesNext]_vars

\* C17: the embedding and upload stages leave every field of a chunk as
\* chunk_text created it and add no field but embedding, and the embedding
\* of a chunk changes at most once, from absent to present.
C17_StagesChangeOnlyEmbedding ==
    /\ [](\A i \in 1..Len(echunks) :
             /\ SameFields(echunks[i], InputChunk(i))
             /\ DOMAIN echunks[i] \subseteq
                  DOMAIN InputChunk(i) \cup {"embedding"})
    /\ [](\A j \in 1..Len(embedded) :
             \E i \in 1..Len(echunks) : embedded[j] = echunks[i])
    /\ [][/\ Len(echunks') = Len(echunks)
          /\ \A i \in 1..Len(echunks) :
                echunks'[i] # echunks[i] =>
                    /\ "embedding" \notin DOMAIN echunks[i]
                    /\ "embedding" \in DOMAIN echunks'[i]
          /\ uchunks' = uchunks
         ]_vars

-----------------------------------------------------------------------------
(* Extraction and the three drivers: main of the old pipeline (lines       *)
(* 254-290), main of process_chunks.py (lines 169-200) and main of         *)
(* embed_chunks.py (lines 152-172).  A document is what the PDF library    *)
(* makes of a file: whether it opens, and for every page its text or the   *)
(* fact that reading it raises.                                            *)

MaxDocs == 2

DefaultChunkSize    == 600
DefaultChunkOverlap == 50
MinPageChars        == 50

PageOf(t)      == [text |-> t, raises |-> FALSE]
RaisingPage    == [text |-> <<>>, raises |-> TRUE]
ShortPage      == PageOf(PlainText(3, 0))
LongPage(off)  == PageOf(PlainText(10, off))
PaddedPage     == PageOf(<<SP, NL>> \o PlainText(10, 2) \o <<NL>>)

DocPages ==
    {<<>>, <<ShortPage>>, <<LongPage(0)>>, <<ShortPage, PaddedPage>>,
     <<LongPage(1), RaisingPage, LongPage(3)>>}

DriverDocs == {[opens |-> o, pages |-> ps] : o \in BOOLEAN, ps \in DocPages}

DocName(k) == "doc" \o ToString(k) \o ".pdf"

\* text and len(text.strip()) > 50
Usable(t) == t # <<>> /\ Chars(Strip(t)) > MinPageChars

\* extract_text_from_pdf of the old pipeline: a page whose reading raises
\* is left out, a file that does not open gives no page at all.
old_extract_text_from_pdf(doc) ==
    IF ~doc.opens THEN <<>>
    ELSE LET kept == SelectSeq(Indices(doc.pages),
                        LAMBDA i : /\ ~doc.pages[i].raises
                                   /\ Usable(doc.pages[i].text))
         IN  [k \in 1..Len(kept) |->
                [page_number |-> kept[k], text |-> doc.pages[kept[k]].text]]

\* extract_text_from_pdf of process_chunks.py has no try statement: fitz.open
\* or page.get_text raising ends the call with the exception.
ExtractRaises(doc) ==
    \/ ~doc.opens
    \/ \E i \in 1..Len(doc.pages) : doc.pages[i].raises

extract_text_from_pdf(doc) ==
    LET kept == SelectSeq(Indices(doc.pages),
                    LAMBDA i : Usable(doc.pages[i].text))
    IN  [k \in 1..Len(kept) |->
           [page_number |-> kept[k],
            text |-> Strip(doc.pages[kept[k]].text)]]

\* A JSON file and its absence; json.dump and json.load of a list of chunk
\* records of strings, integers and lists of numbers give the list back.
Absent     == [kind |-> "absent", records |-> <<>>]
Json(cs)   == [kind |-> "json", records |-> cs]
NoFiles    == [raw |-> Absent, embedded |-> Absent]

\* What the driver did, in order.
CallStage(stage)      == [ev |-> "call", stage |-> stage, n |-> 0]
ReturnStage(stage, n) == [ev |-> "return", stage |-> stage, n |-> n]
WriteFile(path, n)    == [ev |-> "write", stage |-> path, n |-> n]
RaiseEvent(stage)     == [ev |-> "raise", stage |-> stage, n |-> 0]

\* The chunks of one document in main of process_chunks.py: lines 178-187.
DocumentChunks(k) ==
    LET pages == extract_text_from_pdf(docs[k])
    IN  IF pages = <<>> THEN <<>>
        ELSE chunk_text(pages, DocName(k), DefaultChunkSize,
                        DefaultChunkOverlap)

ProcessMainInit ==
    /\ main = "process_main"
    /\ mpc = "loop"
    /\ \E n \in 1..MaxDocs : docs \in [1..n -> DriverDocs]
    /\ di = 1
    /\ all_chunks = <<>>
    /\ files = NoFiles
    /\ mlog = <<>>
    /\ ClassifyIdle /\ ChunkIdle /\ EmbedIdle /\ UploadIdle

\* One round of the loop of line 177 whose extraction raises: nothing in
\* main catches the exception.
ProcessDocumentRaises ==
    /\ main = "process_main" /\ mpc = "loop" /\ di <= Len(docs)
    /\ ExtractRaises(docs[di])
    /\ mlog' = mlog \o <<CallStage("extraction"), RaiseEvent("extraction")>>
    /\ mpc' = "raised"
    /\ UNCHANGED <<main, docs, di, all_chunks, files,
                   classifyVars, chunkVars, embedVars, uploadVars>>

\* One round of the loop of line 177: lines 178-190, combine being true.
ProcessDocument ==
    /\ main = "process_main" /\ mpc = "loop" /\ di <= Len(docs)
    /\ ~ExtractRaises(docs[di])
    /\ LET pages == extract_text_from_pdf(docs[di])
           made  == DocumentChunks(di)
       IN  /\ all_chunks' = all_chunks \o made
           /\ mlog' = mlog \o
                <<CallStage("extraction"),
                  ReturnStage("extraction", Len(pages))>>
                \o (IF pages = <<>> THEN <<>>
                    ELSE <<CallStage("chunking"),
                           ReturnStage("chunking", Len(made))>>)
    /\ di' = di + 1
    /\ UNCHANGED <<main, mpc, docs, files,
                   classifyVars, chunkVars, embedVars, uploadVars>>

\* Behind the loop: save_chunks(all_chunks, RAW_CHUNKS_PATH), lines 198-200.
ProcessSave ==
    /\ main = "process_main" /\ mpc = "loop" /\ di > Len(docs)
    /\ files' = [files EXCEPT !.raw = Json(all_chunks)]
    /\ mlog' = Append(mlog, WriteFile("raw", Len(all_chunks)))
    /\ mpc' = "done"
    /\ UNCHANGED <<main, docs, di, all_chunks,
                   classifyVars, chunkVars, embedVars, uploadVars>>

ProcessMainNext ==
    \/ ProcessDocumentRaises
    \/ ProcessDocument
    \/ ProcessSave

ProcessMainSpec == ProcessMainInit /\ [][ProcessMainNext]_vars

\* The chunks of the documents that raise nothing, in the order of the list.
RECURSIVE ChunksOfSoundDocs(_)
ChunksOfSoundDocs(k) ==
    IF k > Len(docs) THEN <<>>
    ELSE (IF ExtractRaises(docs[k]) THEN <<>> ELSE DocumentChunks(k))
         \o ChunksOfSoundDocs(k + 1)

\* C15: in a run over several documents an error raised while one document
\* is extracted or chunked fails that document only: when the run is over,
\* the chunks of every other document of the list are in the output
\* artifact.
C15_ErrorFailsOnlyItsDocument ==
    mpc \in {"done", "raised"} =>
        /\ files.raw.kind = "json"
        /\ files.raw.records = ChunksOfSoundDocs(1)

-----------------------------------------------------------------------------
(* The drivers that run the embedding and upload stages                    *)

MaxRecords == 2

\* The driver calls an embedding function on chunks cs.  The provider may
\* fail on every call of the run or on none.
StartEmbedding(fn, cs) ==
    /\ impl' = fn
    /\ echunks' = cs
    /\ ei' = 1
    /\ attempt' = 0
    /\ successful' = 0
    /\ failed' = 0
    /\ embedded' = <<>>
    /\ elog' = <<>>
    /\ epc' = "loop"
    /\ \E fl \in {{}, 1..Len(cs)} :
          /\ flaky' = fl
          /\ budget' = retry_attempts * Cardinality(fl)

\* The driver calls an upload function on chunks cs.
StartUpload(fn, cs) ==
    /\ uimpl' = fn
    /\ uchunks' = cs
    /\ ui' = 0
    /\ uattempt' = 0
    /\ usuccessful' = 0
    /\ ufailed' = 0
    /\ store' = <<>>
    /\ ulog' = <<>>
    /\ upc' = IF fn = "new_upload" THEN "test"
              ELSE IF cs = <<>> THEN "returned" ELSE "loop"

OldMainInit ==
    /\ main = "old_main"
    /\ mpc = "extract"
    /\ docs \in [1..1 -> DriverDocs]
    /\ di = 1
    /\ all_chunks = <<>>
    /\ files = NoFiles
    /\ mlog = <<>>
    /\ ClassifyIdle /\ ChunkIdle /\ EmbedIdle /\ UploadIdle

\* Lines 262-266.
OldMainExtract ==
    /\ main = "old_main" /\ mpc = "extract"
    /\ pages_text' = old_extract_text_from_pdf(docs[1])
    /\ mlog' = mlog \o <<CallStage("extraction"),
                         ReturnStage("extraction", Len(pages_text'))>>
    /\ mpc' = IF pages_text' = <<>> THEN "aborted" ELSE "chunk"
    /\ UNCHANGED <<main, docs, di, all_chunks, files, chunk_size,
                   chunk_overlap, chunks, cpc,
                   classifyVars, embedVars, uploadVars>>

\* Lines 269-276: chunk_text, and the call of generate_embeddings on what
\* it returned.
OldMainChunk ==
    /\ main = "old_main" /\ mpc = "chunk"
    /\ chunks' = old_chunk_text(pages_text, DefaultChunkSize,
                                DefaultChunkOverlap)
    /\ IF chunks' = <<>>
       THEN /\ mpc' = "aborted"
            /\ mlog' = mlog \o <<CallStage("chunking"),
                                 ReturnStage("chunking", 0)>>
            /\ UNCHANGED embedVars
       ELSE /\ mpc' = "embed"
            /\ mlog' = mlog \o <<CallStage("chunking"),
                                 ReturnStage("chunking", Len(chunks')),
                                 CallStage("embedding")>>
            /\ StartEmbedding("generate_embeddings", chunks')
    /\ UNCHANGED <<main, docs, di, all_chunks, files, pages_text, chunk_size,
                   chunk_overlap, cpc, classifyVars, uploadVars>>

\* Lines 276-283: generate_embeddings has returned.
OldMainEmbedded ==
    /\ main = "old_main" /\ mpc = "embed" /\ epc = "returned"
    /\ IF embedded = <<>>
       THEN /\ mpc' = "aborted"
            /\ mlog' = Append(mlog, ReturnStage("embedding", 0))
            /\ UNCHANGED uploadVars
       ELSE /\ mpc' = "upload"
            /\ mlog' = mlog \o <<ReturnStage("embedding", Len(embedded)),
                                 CallStage("upload")>>
            /\ StartUpload("old_upload", embedded)
    /\ UNCHANGED <<main, docs, di, all_chunks, files,
                   classifyVars, chunkVars, embedVars>>

\* Lines 283-290: upload_to_supabase has returned.
OldMainUploaded ==
    /\ main = "old_main" /\ mpc = "upload" /\ upc = "returned"
    /\ mpc' = "done"
    /\ mlog' = Append(mlog, ReturnStage("upload", usuccessful))
    /\ UNCHANGED <<main, docs, di, all_chunks, files,
                   classifyVars, chunkVars, embedVars, uploadVars>>

\* The records of an artifact a run may find: what process_chunks.py and an
\* earlier run of embed_chunks.py wrote.
RawArtifacts == {Absent} \cup {Json(InputChunks(n)) : n \in 0..MaxRecords}
EmbeddedArtifacts ==
    {Absent} \cup {Json(EmbeddedChunks("new_upload", n)) : n \in 0..MaxRecords}

FoundEvent(path, n) == [ev |-> "found", stage |-> path, n |-> n]

EmbedMainInit ==
    /\ main = "embed_main"
    /\ mpc = "start"
    /\ docs = <<>>
    /\ di = 0
    /\ all_chunks = <<>>
    /\ \E r \in RawArtifacts, e \in EmbeddedArtifacts :
          files = [raw |-> r, embedded |-> e]
    /\ mlog = <<>>
    /\ ClassifyIdle /\ ChunkIdle /\ EmbedIdle /\ UploadIdle

\* Mutant of SaveEmbeddedChunks: nothing is written.
SaveNothing(fs, cs) == fs

\* save_embedded_chunks(embedded, EMBEDDED_CHUNKS_PATH)
SaveEmbeddedChunks(fs, cs) == [fs EXCEPT !.embedded = Json(cs)]

\* The embedded-chunks artifact exists: lines 156-158 and 172.
EmbedMainFound ==
    /\ main = "embed_main" /\ mpc = "start"
    /\ files.embedded.kind = "json"
    /\ mlog' = mlog \o
         <<FoundEvent("embedded", Len(files.embedded.records)),
           CallStage("upload")>>
    /\ StartUpload("new_upload", files.embedded.records)
    /\ mpc' = "upload"
    /\ UNCHANGED <<main, docs, di, all_chunks, files,
                   classifyVars, chunkVars, embedVars>>

\* It does not exist, and neither does the raw-chunks artifact: open()
\* raises in load_chunks, line 161.
EmbedMainLoadRaises ==
    /\ main = "embed_main" /\ mpc = "start"
    /\ files.embedded.kind = "absent" /\ files.raw.kind = "absent"
    /\ mlog' = Append(mlog, RaiseEvent("load"))
    /\ mpc' = "raised"
    /\ UNCHANGED <<main, docs, di, all_chunks, files,
                   classifyVars, chunkVars, embedVars, uploadVars>>

\* Mutant of EmbedMainEmbed: the run embeds the raw chunks whether or not
\* the embedded-chunks artifact exists.
EmbedMainEmbedAlways ==
    /\ main = "embed_main" /\ mpc = "start"
    /\ files.raw.kind = "json"
    /\ mlog' = Append(mlog, CallStage("embedding"))
    /\ StartEmbedding("embed_with_openai", files.raw.records)
    /\ mpc' = "embed"
    /\ UNCHANGED <<main, docs, di, all_chunks, files,
                   classifyVars, chunkVars, uploadVars>>

\* It does not exist: lines 160-164, EMBEDDING_PROVIDER being "openai".
EmbedMainEmbed ==
    /\ main = "embed_main" /\ mpc = "start"
    /\ files.embedded.kind = "absent" /\ files.raw.kind = "json"
    /\ mlog' = Append(mlog, CallStage("embedding"))
    /\ StartEmbedding("embed_with_openai", files.raw.records)
    /\ mpc' = "embed"
    /\ UNCHANGED <<main, docs, di, all_chunks, files,
                   classifyVars, chunkVars, uploadVars>>

\* embed_with_openai has returned: lines 170-172.
EmbedMainSave ==
    /\ main = "embed_main" /\ mpc = "embed" /\ epc = "returned"
    /\ files' = SaveEmbeddedChunks(files, embedded)
    /\ mlog' = mlog \o <<ReturnStage("embedding", Len(embedded)),
                         WriteFile("embedded", Len(embedded)),
                         CallStage("upload")>>
    /\ StartUpload("new_upload", embedded)
    /\ mpc' = "upload"
    /\ UNCHANGED <<main, docs, di, all_chunks,
                   classifyVars, chunkVars, embedVars>>

\* upload_to_supabase has returned: line 172.
EmbedMainUploaded ==
    /\ main = "embed_main" /\ mpc = "upload" /\ upc = "returned"
    /\ mpc' = "done"
    /\ mlog' = Append(mlog, ReturnStage("upload", usuccessful))
    /\ UNCHANGED <<main, docs, di, all_chunks, files,
                   classifyVars, chunkVars, embedVars, uploadVars>>

DriverInit == OldMainInit \/ EmbedMainInit

\* generate_embeddings is never called on an empty list by main of the old
\* pipeline (lines 271-273), so GenerateNothing is no step of a driver run.
DriverNext ==
    \/ OldMainExtract
    \/ OldMainChunk
    \/ OldMainEmbedded
    \/ OldMainUploaded
    \/ EmbedMainFound
    \/ EmbedMainLoadRaises
    \/ EmbedMainEmbed
    \/ EmbedMainSave
    \/ EmbedMainUploaded
    \/ GenerateCallSucceeds
    \/ GenerateCallFailsRetry
    \/ GenerateCallFailsLast
    \/ OpenaiCallSucceeds
    \/ OpenaiCallFails
    \/ OpenaiNothing
    \/ UploadNext

DriverSpec == DriverInit /\ [][DriverNext]_vars

-----------------------------------------------------------------------------
(* Claims about the drivers                                                *)

StageRank(stage) ==
    CASE stage = "extraction" -> 1
      [] stage = "chunking"   -> 2
      [] stage = "embedding"  -> 3
      [] stage = "upload"     -> 4

Events(ev) == {p \in 1..Len(mlog) : mlog[p].ev = ev}

\* C14: the driver runs the stages in the order extraction, chunking,
\* embedding, upload, each at most once; a stage that returns an empty
\* result ends the run as aborted, with no later stage run, no request to
\* the store and no artifact written from an empty set; and the run is
\* aborted for no other reason.
C14_StagesInOrderAbortOnEmpty ==
    main \in {"old_main", "embed_main"} =>
        /\ \A p \in Events("call"), q \in Events("call") :
              p < q => StageRank(mlog[p].stage) < StageRank(mlog[q].stage)
        /\ \A p \in Events("return") :
              (mlog[p].n = 0 /\ mlog[p].stage # "upload") =>
                  /\ p = Len(mlog)
                  /\ mpc = "aborted"
                  /\ ulog = <<>>
        /\ \A p \in Events("write") : mlog[p].n > 0
        /\ mpc = "aborted" =>
              /\ mlog[Len(mlog)].ev = "return"
              /\ mlog[Len(mlog)].n = 0

\* C16: a run of the embed-and-upload driver that finds the embedded-chunks
\* artifact calls no embedding function, writes nothing and hands exactly
\* the records of the artifact to the upload; a run that does not find it
\* embeds the records of the raw-chunks artifact, and no request goes to
\* the store before the embedded-chunks artifact holds what the embedding
\* returned.
C16_ArtifactSkipsEmbedding ==
    (main = "embed_main" /\ mlog # <<>>) =>
        IF mlog[1].ev = "found"
        THEN /\ impl = "none" /\ elog = <<>>
             /\ Events("write") = {}
             /\ uimpl = "new_upload"
             /\ uchunks = files.embedded.records
             /\ Len(uchunks) = mlog[1].n
        ELSE IF mlog[1].ev = "raise"
        THEN files.raw.kind = "absent" /\ elog = <<>> /\ ulog = <<>>
        ELSE /\ impl = "embed_with_openai"
             /\ Len(echunks) = Len(files.raw.records)
             /\ \A i \in 1..Len(echunks) :
                   SameFields(echunks[i], files.raw.records[i])
             /\ \A p \in 1..Len(elog) : elog[p].chunk \in 1..Len(echunks)
             /\ uimpl # "none" =>
                   /\ epc = "returned"
                   /\ uchunks = embedded
             /\ ulog # <<>> =>
                   /\ Events("write") # {}
                   /\ files.embedded = Json(embedded)

\* A run that found no embedded-chunks artifact has embedded two raw
\* chunks, written the artifact and inserted its records.
C16_Witness ==
    /\ main = "embed_main" /\ mpc = "done"
    /\ mlog[1].ev = "call" /\ mlog[1].stage = "embedding"
    /\ Len(files.raw.records) = 2
    /\ \E p \in 1..Len(elog) : elog[p].ok
    /\ \E p \in 1..Len(ulog) : ulog[p].op = "insert" /\ ulog[p].outcome = "ok"
    /\ files.embedded.kind = "json"
    /\ Len(store) = Len(files.embedded.records)
    /\ Len(store) > 0

-----------------------------------------------------------------------------
(* Claims about the store and the counters of the upload stage             *)

\* The positions in the input of the chunks whose batch an insert has
\* stored, in the order of the inserts of ulog up to position p.
RECURSIVE InsertedUpTo(_)
InsertedUpTo(p) ==
    IF p = 0 THEN <<>>
    ELSE InsertedUpTo(p - 1)
         \o (IF ulog[p].op = "insert" /\ ulog[p].outcome = "ok"
             THEN [k \in 1..ulog[p].rows |-> ulog[p].start + k]
             ELSE <<>>)

\* Row row of the store is the record of chunk c.
RowOfChunk(row, c) ==
    /\ row.content = c.content
    /\ row.embedding = c.embedding
    /\ row.page_number = c.page_number
    /\ row.section_title = c.section_title
    /\ row.aircraft_model = c.aircraft_model
    /\ row.document_id = c.document_id
    /\ row.system_category = c.system_category

\* C21: at every point of an upload run the store holds exactly the records
\* of the batches whose insert has succeeded so far, in the order of the
\* inserts: nothing of a batch not yet attempted, of a batch whose attempts
\* all failed or of a batch that ran out of attempts is in it, and no step
\* removes a record from it.
C21_StoreHoldsTheInsertedBatches ==
    /\ [](uimpl # "none" =>
            LET want == InsertedUpTo(Len(ulog))
            IN  /\ Len(store) = Len(want)
                /\ \A k \in 1..Len(store) :
                      RowOfChunk(store[k], uchunks[want[k]])
                /\ \A i \in BatchStarts :
                      (\A p \in InsertsOf(i) : ulog[p].outcome # "ok") =>
                          \A k \in 1..Len(store) :
                              store[k].page_number \notin
                                  {uchunks[j].page_number :
                                      j \in (i + 1)..(i + RowsOf(i))})
    /\ [][/\ Len(store') >= Len(store)
          /\ SubSeq(store', 1, Len(store)) = store]_vars

\* The first batch ran out of attempts, the second was inserted and is all
\* the store holds.
C21_Witness ==
    /\ upc = "returned" /\ Len(uchunks) = 100
    /\ Cardinality(InsertsOf(0)) = 3
    /\ \A p \in InsertsOf(0) : ulog[p].outcome = "throw"
    /\ \E p \in InsertsOf(50) : ulog[p].outcome = "ok"
    /\ Len(store) = 50
    /\ store[1].page_number = 51

-----------------------------------------------------------------------------
(* One call of an extractor on a drawn document                            *)

MaxDocPages == 3

\* Texts of 47, 50 and 51 characters, and texts that reach 50 or more only
\* with the whitespace around them.
Text47 == <<"hydraulic", SP, "pressure", SP, "hydraulic", SP, "pressure", SP,
            "hydraulic">>
Text50 == Text47 \o <<SP, "of">>
Text51 == Text47 \o <<SP, "the">>

ExtractPages ==
    {PageOf(<<>>), PageOf(Text47), PageOf(Text50), PageOf(Text51),
     PageOf(<<SP, NL>> \o Text47 \o <<NL>>),
     PageOf(<<NL>> \o Text51 \o <<NL, NL>>),
     RaisingPage}

ExtractDocs ==
    {[opens |-> o, pages |-> ps] :
        o \in BOOLEAN,
        ps \in UNION {[1..n -> ExtractPages] : n \in 0..MaxDocPages}}

ExtractInit ==
    /\ main \in {"old_extract_text_from_pdf", "extract_text_from_pdf"}
    /\ mpc = "call"
    /\ \E d \in ExtractDocs : docs = <<d>>
    /\ di = 1
    /\ all_chunks = <<>>
    /\ files = NoFiles
    /\ mlog = <<>>
    /\ ClassifyIdle /\ ChunkIdle /\ EmbedIdle /\ UploadIdle

\* extract_text_from_pdf of the old pipeline returns.
OldExtract ==
    /\ main = "old_extract_text_from_pdf" /\ mpc = "call"
    /\ pages_text' = old_extract_text_from_pdf(docs[1])
    /\ mpc' = "returned"
    /\ UNCHANGED <<main, docs, di, all_chunks, files, mlog, chunk_size,
                   chunk_overlap, chunks, cpc,
                   classifyVars, embedVars, uploadVars>>

\* extract_text_from_pdf of process_chunks.py returns.
NewExtract ==
    /\ main = "extract_text_from_pdf" /\ mpc = "call"
    /\ ~ExtractRaises(docs[1])
    /\ pages_text' = extract_text_from_pdf(docs[1])
    /\ mpc' = "returned"
    /\ UNCHANGED <<main, docs, di, all_chunks, files, mlog, chunk_size,
                   chunk_overlap, chunks, cpc,
                   classifyVars, embedVars, uploadVars>>

\* extract_text_from_pdf of process_chunks.py raises.
NewExtractRaises ==
    /\ main = "extract_text_from_pdf" /\ mpc = "call"
    /\ ExtractRaises(docs[1])
    /\ mpc' = "raised"
    /\ UNCHANGED <<main, docs, di, all_chunks, files, mlog,
                   classifyVars, chunkVars, embedVars, uploadVars>>

ExtractNext ==
    \/ OldExtract
    \/ NewExtract
    \/ NewExtractRaises

ExtractSpec == ExtractInit /\ [][ExtractNext]_vars

\* The pages of the document that have a text of at least 50 characters.
PagesToKeep ==
    SelectSeq(Indices(docs[1].pages),
              LAMBDA i : /\ ~docs[1].pages[i].raises
                         /\ docs[1].pages[i].text # <<>>
                         /\ Chars(docs[1].pages[i].text) >= 50)

\* C22: the extractor passes on exactly the pages whose extracted text is
\* not empty and not shorter than 50 characters, a page of exactly 50
\* characters included; each page it passes on carries its 1-based position
\* in the document as page_number, and the pages stay in document order.
C22_KeepsPagesOfFiftyCharactersOrMore ==
    (main \in {"old_extract_text_from_pdf", "extract_text_from_pdf"}
       /\ mpc = "returned" /\ docs[1].opens) =>
        /\ Len(pages_text) = Len(PagesToKeep)
        /\ \A k \in 1..Len(pages_text) :
              pages_text[k].page_number = PagesToKeep[k]

-----------------------------------------------------------------------------
\* C23: when the upload has finished, every input chunk has been counted
\* exactly once, as successful or as failed: successful + failed is the
\* number of input chunks, whatever the inserts did (raised, answered with
\* no rows, or answered with one row per chunk of the batch).
C23_EveryChunkCountedOnce ==
    (uimpl # "none" /\ upc = "returned") =>
        usuccessful + ufailed = Len(uchunks)

-----------------------------------------------------------------------------
(* Runs of main of embed_chunks.py one after the other on the same files   *)

MaxReruns == 2

RunEvent == [ev |-> "run", stage |-> "main", n |-> 0]

\* main is started again after a run that ended; the files are as the
\* earlier run left them.
EmbedMainRerun ==
    /\ main = "embed_main" /\ mpc = "done"
    /\ Cardinality(Events("run")) < MaxReruns
    /\ mlog' = Append(mlog, RunEvent)
    /\ mpc' = "start"
    /\ UNCHANGED <<main, docs, di, all_chunks, files,
                   classifyVars, chunkVars, embedVars, uploadVars>>

RerunNext ==
    \/ EmbedMainFound
    \/ EmbedMainLoadRaises
    \/ EmbedMainEmbed
    \/ EmbedMainSave
    \/ EmbedMainUploaded
    \/ EmbedMainRerun
    \/ OpenaiCallSucceeds
    \/ OpenaiCallFails
    \/ OpenaiNothing
    \/ NewConnectionTest
    \/ NewInsertOk
    \/ NewInsertEmpty
    \/ NewInsertThrows

RerunSpec == EmbedMainInit /\ [][RerunNext]_vars

\* The chunks of the raw-chunks artifact whose embedding succeeded in the
\* run that embedded them, in their order.
EmbeddedInRun ==
    SelectSeq(Indices(echunks), LAMBDA i : SucceededCall(i) # 0)

\* C24: once a run has written the embedded-chunks artifact, the artifact
\* holds exactly the chunks whose embedding succeeded in that run (none at
\* all when every chunk failed); no later run calls the embedding function,
\* so no chunk is sent to the provider again; and what that run and every
\* later run hands to the upload and puts in the store are records of the
\* artifact only, never a chunk whose embedding failed.
C24_FailedChunksStayOut ==
    (main = "embed_main" /\ Events("write") # {}) =>
        LET w == CHOOSE p \in Events("write") : TRUE
        IN  /\ Cardinality(Events("write")) = 1
            /\ \A p \in Events("call") :
                  mlog[p].stage = "embedding" => p < w
            /\ epc = "returned"
            /\ files.embedded.kind = "json"
            /\ Len(files.embedded.records) = Len(EmbeddedInRun)
            /\ mlog[w].n = Len(EmbeddedInRun)
            /\ \A k \in 1..Len(EmbeddedInRun) :
                  /\ files.embedded.records[k].embedding
                        = Vector(SucceededCall(EmbeddedInRun[k]))
                  /\ SameFields(files.embedded.records[k],
                                files.raw.records[EmbeddedInRun[k]])
            /\ Cardinality({p \in 1..Len(elog) : elog[p].op = "call"})
                  = Len(files.raw.records)
            /\ uimpl # "none" => uchunks = files.embedded.records
            /\ \A k \in 1..Len(store) :
                  \E j \in 1..Len(EmbeddedInRun) :
                      store[k].page_number
                          = files.raw.records[EmbeddedInRun[j]].page_number

\* The first run failed on the first of two chunks and wrote the artifact;
\* a later run has found it and uploaded the one record in it.
C24_Witness ==
    /\ main = "embed_main" /\ mpc = "done"
    /\ Events("run") # {} /\ Events("write") # {} /\ Events("found") # {}
    /\ Len(files.raw.records) = 2
    /\ SucceededCall(1) = 0 /\ SucceededCall(2) # 0
    /\ Len(files.embedded.records) = 1
    /\ Len(store) = 1
    /\ store[1].page_number = 2

=============================================================================
